---- MODULE Spec2Model ----
(***************************************************************************)
(* Model of the BigARTM master component (src/artm/core/                   *)
(* master_component.cc): the matrix registry, the processor queue, the     *)
(* batch managers, RequestProcessBatchesImpl, MergeModel, RegularizeModel, *)
(* NormalizeModel and the three schedules of ArtmExecutor.                 *)
(*                                                                         *)
(* Floats are modelled as integers: the algebra of the model is exact, so  *)
(* float rounding is outside what is checked here.                         *)
(***************************************************************************)
EXTENDS Integers, Sequences, FiniteSets, TLC

(***************************************************************************)
(* Bounds of the model.                                                    *)
(***************************************************************************)
MaxThreads == 2          \* config.threads ranges over 0..MaxThreads
MaxCalls == 2            \* API calls issued in one behaviour of Spec
MaxTasks == 3            \* tasks enqueued in one behaviour of Spec
MaxPasses == 2           \* FitOffline passes range over 0..MaxPasses
MaxGroups == 3           \* online update groups range over 1..MaxGroups

(***************************************************************************)
(* Sequences helpers.                                                      *)
(***************************************************************************)
Range(s) == {s[i] : i \in 1..Len(s)}

IndexOf(s, x) == IF x \in Range(s) THEN CHOOSE i \in 1..Len(s) : s[i] = x ELSE 0

RECURSIVE SumSeq(_)
SumSeq(s) == IF s = <<>> THEN 0 ELSE Head(s) + SumSeq(Tail(s))

(***************************************************************************)
(* Phi matrices.  A matrix is a record: ordered topic names, ordered       *)
(* tokens, one row of values per token, and whether its storage is         *)
(* external (AttachedPhiMatrix) or owned (DensePhiMatrix, a frame).        *)
(***************************************************************************)
ZeroRow(n) == [j \in 1..n |-> 0]

\* float weights (source_weight, apply_weight, decay_weight) are fixed-point
\* numbers in units of 1 / WeightDen: the weight 0.5 is 1, the weight 1.0 is 2
WeightDen == 2

\* weight * value, rounded once as the float product is
Mul(weight, value) == (weight * value) \div WeightDen

\* std::make_shared<DensePhiMatrix>(name, topic_name): no tokens yet
DensePhiMatrix(topic_name) ==
  [topic_name |-> topic_name, token |-> <<>>, data |-> <<>>, attached |-> FALSE]

\* PhiMatrix::Reshape(other): copy the token axis of other, all values zero
Reshape(m, other) ==
  [m EXCEPT !.token = other.token,
            !.data = [i \in 1..Len(other.token) |-> ZeroRow(Len(m.topic_name))]]

\* PhiMatrix::AddToken
AddToken(m, tok) ==
  [m EXCEPT !.token = Append(m.token, tok),
            !.data = Append(m.data, ZeroRow(Len(m.topic_name)))]

\* PhiMatrixOperations::RetrieveExternalTopicModel with default
\* GetTopicModelArgs: every token and every topic of the matrix
RetrieveExternalTopicModel(m) ==
  [topic_name |-> m.topic_name, token |-> m.token, token_weights |-> m.data]

\* one token of ApplyTopicModelOperation: add the token when the target lacks
\* it, then increase its row by weight * value on the topics matched by name
ApplyToken(target, topic_name, tok, row, weight) ==
  LET t1 == IF tok \in Range(target.token) THEN target ELSE AddToken(target, tok)
      id == IndexOf(t1.token, tok)
      inc(j) == LET k == IndexOf(topic_name, t1.topic_name[j])
                IN IF k = 0 THEN 0 ELSE Mul(weight, row[k])
  IN [t1 EXCEPT !.data[id] = [j \in 1..Len(t1.topic_name) |-> @[j] + inc(j)]]

RECURSIVE ApplyFrom(_, _, _, _)
ApplyFrom(tm, weight, target, k) ==
  IF k > Len(tm.token) THEN target
  ELSE ApplyFrom(tm, weight,
                 ApplyToken(target, tm.topic_name, tm.token[k], tm.token_weights[k], weight),
                 k + 1)

\* PhiMatrixOperations::ApplyTopicModelOperation(topic_model, weight, target)
ApplyTopicModelOperation(tm, weight, target) ==
  IF \A n \in Range(tm.topic_name) : n \notin Range(target.topic_name)
  THEN target
  ELSE ApplyFrom(tm, weight, target, 1)

\* value of a cell by token and topic name, 0 when either is missing
Cell(m, tok, topic) ==
  LET i == IndexOf(m.token, tok)
      j == IndexOf(m.topic_name, topic)
  IN IF i = 0 \/ j = 0 THEN 0 ELSE m.data[i][j]

(***************************************************************************)
(* The numerical kernels (external collaborators).                         *)
(***************************************************************************)
Scale == 12              \* a normalized column sums to at most Scale

AllTokens == <<"w1", "w2">>
AllTopics == <<"t1", "t2">>
BatchIds == {"b1", "b2", "b3", "b4"}

\* n_dw: the count of token w in batch b
BatchCount(b, w) ==
  CASE b = "b1" -> (IF w = "w1" THEN 2 ELSE 1)
    [] b = "b2" -> (IF w = "w1" THEN 1 ELSE 0)
    [] b = "b3" -> (IF w = "w1" THEN 0 ELSE 1)
    [] OTHER    -> 1

\* FindPwt: every topic column of max(n + r, 0) scaled to sum Scale
FindPwt(n_wt, r_wt) ==
  LET pos(i, j) == LET v == n_wt.data[i][j] + r_wt.data[i][j]
                   IN IF v > 0 THEN v ELSE 0
      col(j) == SumSeq([i \in 1..Len(n_wt.token) |-> pos(i, j)])
  IN [i \in 1..Len(n_wt.token) |->
        [j \in 1..Len(n_wt.topic_name) |->
           IF col(j) = 0 THEN 0 ELSE (Scale * pos(i, j)) \div col(j)]]

\* FindPwt without R: every topic column of max(n, 0) scaled to sum Scale
FindPwtNoR(n_wt) ==
  LET pos(i, j) == IF n_wt.data[i][j] > 0 THEN n_wt.data[i][j] ELSE 0
      col(j) == SumSeq([i \in 1..Len(n_wt.token) |-> pos(i, j)])
  IN [i \in 1..Len(n_wt.token) |->
        [j \in 1..Len(n_wt.topic_name) |->
           IF col(j) = 0 THEN 0 ELSE (Scale * pos(i, j)) \div col(j)]]

\* the increments one batch adds to N, given the Phi the worker reads
BatchIncrement(b, batch_weight, p_wt) ==
  [topic_name |-> p_wt.topic_name,
   token |-> p_wt.token,
   token_weights |-> [i \in 1..Len(p_wt.token) |->
      [j \in 1..Len(p_wt.topic_name) |->
         batch_weight * BatchCount(b, p_wt.token[i]) * p_wt.data[i][j]]]]

\* the increments applied to an N target: only tokens the target already has
IncreaseNwt(n_wt, inc) ==
  LET add(i, j) == LET tok == n_wt.token[i]
                       k == IndexOf(inc.token, tok)
                       t == IndexOf(inc.topic_name, n_wt.topic_name[j])
                   IN IF k = 0 \/ t = 0 THEN 0 ELSE inc.token_weights[k][t]
  IN [n_wt EXCEPT !.data = [i \in 1..Len(n_wt.token) |->
                              [j \in 1..Len(n_wt.topic_name) |-> @[i][j] + add(i, j)]]]

(***************************************************************************)
(* State.                                                                  *)
(***************************************************************************)
VARIABLES
  config,            \* MasterModelConfig of the Instance (fixed after creation)
  bad_batches,       \* batches on which a worker fails (unreadable, invalid)
  registry,          \* Instance: model name -> Phi matrix
  processor_queue,   \* Instance::processor_queue(): FIFO of ProcessorInput
  worker,            \* the processor threads: what each one holds
  batch_managers,    \* every BatchManager created so far: its set of task ids
  added,             \* history: the task ids ever added to each BatchManager
  removed,           \* history: the task ids removed from each BatchManager
  remove_calls,      \* history: the number of Remove calls on each BatchManager
  next_task_id,      \* stands for boost::uuids::random_generator
  cache_manager,     \* Instance::cache_manager(): batch ids of the Theta slices
  local_cache,       \* the stack-local CacheManager of the running call
  pb,                \* the frame of RequestProcessBatchesImpl, if one is active
  pc,                \* where the orchestrator thread is
  ex,                \* arguments and locals of the running API call
  last_error,        \* the exception the running API call ended with, or ""
  calls,             \* number of API calls issued so far
  hist,              \* history of the run, written by the orchestrator steps
  score_cache,       \* Instance::score_manager(): batch ids whose scores it holds
  score_tracker,     \* Instance::score_tracker(): the ScoreData entries added
  local_score_manager, \* the ScoreManager of the running pass of a fit
  file_system,       \* the file system: file name -> the bytes of the file
  external           \* the caller's buffer of an external request

vars == <<config, bad_batches, registry, processor_queue, worker, batch_managers,
          added, removed, remove_calls, next_task_id, cache_manager, local_cache,
          pb, pc, ex, last_error, calls, hist, score_cache, score_tracker,
          local_score_manager, file_system, external>>

\* the variables only the processor threads and the enqueue loop write
queue_vars == <<processor_queue, worker, batch_managers, added, removed,
                remove_calls, next_task_id>>

ThetaMatrixTypes == {"None", "Cache", "Dense", "Sparse", "DensePtdw", "SparsePtdw"}

\* ProcessBatchesArgs
ProcessBatchesArgs(pwt, has_nwt, nwt, files, inline, weights, theta) ==
  [pwt_source_name |-> pwt, has_nwt_target_name |-> has_nwt, nwt_target_name |-> nwt,
   batch_filename |-> files, batch |-> inline, batch_weight |-> weights,
   theta_matrix_type |-> theta]

NoArgs == ProcessBatchesArgs("", FALSE, "", <<>>, <<>>, <<>>, "None")

\* ProcessorInput
NoInput ==
  [task_id |-> 0, batch_manager |-> 0, score_manager |-> "null",
   cache_manager |-> "null", ptdw_cache_manager |-> "null", model_name |-> "",
   has_nwt_target_name |-> FALSE, nwt_target_name |-> "", batch |-> "",
   batch_weight |-> 0, call |-> 0]

NoPb ==
  [pc |-> "none", args |-> NoArgs, batch_manager |-> 0, async |-> FALSE,
   score_manager |-> "null", theta_out |-> FALSE,
   theta_cache_manager_ptr |-> "null", ptdw_cache_manager_ptr |-> "null",
   batch_index |-> 0, call |-> 0, drained_removed |-> 0, theta_matrix |-> <<>>,
   pi |-> NoInput]

Idle == [st |-> "idle", pi |-> NoInput]

(***************************************************************************)
(* Matrix registry (Instance::GetPhiMatrix, SetPhiMatrix, DisposeModel).   *)
(***************************************************************************)
HasModel(reg, name) == name \in DOMAIN reg

\* mutant: an entry backed by external memory is kept, the new matrix dropped
SetPhiMatrix_KeepAttached(reg, name, m) ==
  IF name \in DOMAIN reg /\ reg[name].attached THEN reg
  ELSE [n \in (DOMAIN reg) \cup {name} |-> IF n = name THEN m ELSE reg[n]]

SetPhiMatrix(reg, name, m) ==
  [n \in (DOMAIN reg) \cup {name} |-> IF n = name THEN m ELSE reg[n]]

DisposeModel(reg, name) == [n \in (DOMAIN reg) \ {name} |-> reg[n]]

(***************************************************************************)
(* BatchManager.                                                           *)
(***************************************************************************)
IsEverythingProcessed(tasks) == tasks = {}

(***************************************************************************)
(* MasterComponent::RequestProcessBatchesImpl.                             *)
(***************************************************************************)
\* mutant: the processor count is not checked
NoProcessors_Unchecked(cfg) == FALSE

\* line 432: instance_->processor_size() <= 0
NoProcessors(cfg) == cfg.threads <= 0

\* mutant: the target name is not compared with the source name
SourceIsTarget_Unchecked(args) == FALSE

\* line 440: args.nwt_target_name() == args.pwt_source_name()
SourceIsTarget(args) == args.nwt_target_name = args.pwt_source_name

\* mutant: an asynchronous call accepts every theta_matrix_type
AsyncWithTheta_Unchecked(async, args) == FALSE

\* line 449: async && args.theta_matrix_type() != None
AsyncWithTheta(async, args) == async /\ args.theta_matrix_type # "None"

\* lines 432-451: the exception the validation ends with, "" when it passes
ValidateProcessBatches(args, async, reg, cfg) ==
  IF NoProcessors(cfg) THEN "InvalidOperation:NoProcessors"
  ELSE IF ~HasModel(reg, args.pwt_source_name) THEN "InvalidOperation:MissingModel"
  ELSE IF args.has_nwt_target_name /\ SourceIsTarget(args)
    THEN "InvalidOperation:SourceIsTarget"
  ELSE IF AsyncWithTheta(async, args) THEN "InvalidOperation:AsyncWithTheta"
  ELSE ""

\* lines 439-447: the N target is installed once the checks before it passed
InstallsTarget(args, reg, cfg) ==
  /\ ~NoProcessors(cfg)
  /\ HasModel(reg, args.pwt_source_name)
  /\ args.has_nwt_target_name
  /\ ~SourceIsTarget(args)

\* lines 444-446
\* mutant: a matrix already stored under the target name is reused
RegistryAfterValidation_KeepTarget(args, reg, cfg) ==
  IF InstallsTarget(args, reg, cfg) /\ ~HasModel(reg, args.nwt_target_name)
  THEN SetPhiMatrix(reg, args.nwt_target_name,
                    Reshape(DensePhiMatrix(reg[args.pwt_source_name].topic_name),
                            reg[args.pwt_source_name]))
  ELSE reg

RegistryAfterValidation(args, reg, cfg) ==
  IF InstallsTarget(args, reg, cfg)
  THEN SetPhiMatrix(reg, args.nwt_target_name,
                    Reshape(DensePhiMatrix(reg[args.pwt_source_name].topic_name),
                            reg[args.pwt_source_name]))
  ELSE reg

\* lines 460-476: the theta cache handle given to the processor inputs
\* mutant: every call hands its stack-local CacheManager to its inputs
ThetaCacheManagerPtr_Local(args, cfg) == "local"

ThetaCacheManagerPtr(args, cfg) ==
  CASE args.theta_matrix_type = "Cache" -> (IF cfg.cache_theta THEN "instance" ELSE "null")
    [] args.theta_matrix_type \in {"Dense", "Sparse"} -> "local"
    [] OTHER -> "null"

\* mutant: the Dense and Sparse cases fall through into the ptdw cases
PtdwCacheManagerPtr_FallThrough(args) ==
  IF args.theta_matrix_type \in {"Dense", "Sparse", "DensePtdw", "SparsePtdw"}
  THEN "local" ELSE "null"

\* lines 460-476: the ptdw cache handle given to the processor inputs
PtdwCacheManagerPtr(args) ==
  IF args.theta_matrix_type \in {"DensePtdw", "SparsePtdw"} THEN "local" ELSE "null"

\* number of tasks the call enqueues
BatchCountOf(args) == Len(args.batch_filename) + Len(args.batch)

\* mutant: the call returns after the enqueue loops without polling
AfterEnqueue_NoPoll(args, async, batch_index) ==
  IF batch_index < BatchCountOf(args) THEN "enqueue" ELSE "returned"

\* where the frame goes once batch_index tasks were enqueued (lines 507-528)
AfterEnqueue(args, async, batch_index) ==
  IF batch_index < BatchCountOf(args) THEN "enqueue"
  ELSE IF async THEN "returned" ELSE "wait"

\* the frame after lines 425-483
EnterProcessBatches(args, batch_manager, async, score_manager, theta_out, cfg, call) ==
  [NoPb EXCEPT !.pc = AfterEnqueue(args, async, 0), !.args = args,
               !.batch_manager = batch_manager, !.async = async,
               !.score_manager = score_manager, !.theta_out = theta_out,
               !.theta_cache_manager_ptr = ThetaCacheManagerPtr(args, cfg),
               !.ptdw_cache_manager_ptr = PtdwCacheManagerPtr(args),
               !.call = call]

\* lines 508-521: the batch and the weight of the k-th enqueued input (k from 0)
EnqueuedBatch(args, k) ==
  IF k < Len(args.batch_filename) THEN args.batch_filename[k + 1]
  ELSE args.batch[k - Len(args.batch_filename) + 1]

EnqueuedWeightIndex(args, k) ==
  IF k < Len(args.batch_filename) THEN k ELSE k - Len(args.batch_filename)

\* lines 485-505: createProcessorInput
CreateProcessorInput(frame, task_id) ==
  [task_id |-> task_id, batch_manager |-> frame.batch_manager,
   score_manager |-> frame.score_manager,
   cache_manager |-> frame.theta_cache_manager_ptr,
   ptdw_cache_manager |-> frame.ptdw_cache_manager_ptr,
   model_name |-> frame.args.pwt_source_name,
   has_nwt_target_name |-> frame.args.has_nwt_target_name,
   nwt_target_name |-> frame.args.nwt_target_name,
   batch |-> EnqueuedBatch(frame.args, frame.batch_index),
   batch_weight |-> frame.args.batch_weight[EnqueuedWeightIndex(frame.args, frame.batch_index) + 1],
   call |-> frame.call]

\* a new BatchManager object
NewBatchManager == Len(batch_managers) + 1

\* a call of RequestProcessBatchesImpl, up to its first enqueue, on a new
\* BatchManager of the caller; the orchestrator then waits at `at` for the
\* frame to return; an exception leaves it at `onthrow`
CallProcessBatchesImpl(args, async, score_manager, theta_out, at, onthrow) ==
  LET err == ValidateProcessBatches(args, async, registry, config)
  IN /\ registry' = RegistryAfterValidation(args, registry, config)
     /\ batch_managers' = Append(batch_managers, {})
     /\ added' = Append(added, {})
     /\ removed' = Append(removed, {})
     /\ remove_calls' = Append(remove_calls, 0)
     /\ last_error' = err
     /\ IF err = ""
        THEN /\ pb' = EnterProcessBatches(args, NewBatchManager, async, score_manager,
                                          theta_out, config, calls)
             /\ pc' = at
        ELSE /\ pb' = NoPb
             /\ pc' = onthrow

\* BatchManager::Add
BatchManagerAdd(tasks, task_id) == tasks \cup {task_id}

\* mutant: createProcessorInput does not register the task
TasksAfterCreate_NoAdd(tasks, task_id) == tasks

\* line 487: the batch manager once createProcessorInput has run
TasksAfterCreate(tasks, task_id) == BatchManagerAdd(tasks, task_id)

\* lines 509 and 517: createProcessorInput draws a task id, adds it to the
\* batch manager and builds the ProcessorInput, which the loop body holds
PB_Enqueue ==
  /\ pb.pc = "enqueue"
  /\ LET pi == CreateProcessorInput(pb, next_task_id)
         h == pb.batch_manager
     IN /\ batch_managers' = [batch_managers EXCEPT ![h] = TasksAfterCreate(@, pi.task_id)]
        /\ added' = [added EXCEPT ![h] = TasksAfterCreate(@, pi.task_id)]
        /\ next_task_id' = next_task_id + 1
        /\ pb' = [pb EXCEPT !.pi = pi, !.pc = "push"]
  /\ UNCHANGED <<config, score_cache, score_tracker, local_score_manager, file_system, external, bad_batches, registry,
                 processor_queue, worker, removed, remove_calls, cache_manager,
                 local_cache, pc, ex, last_error, calls, hist>>

\* lines 512 and 520: the ProcessorInput is pushed to the processor queue
PB_Push ==
  /\ pb.pc = "push"
  /\ processor_queue' = Append(processor_queue, pb.pi)
  /\ pb' = [pb EXCEPT !.pi = NoInput, !.batch_index = @ + 1,
                      !.pc = AfterEnqueue(pb.args, pb.async, pb.batch_index + 1)]
  /\ UNCHANGED <<config, score_cache, score_tracker, local_score_manager, file_system, external, bad_batches, registry,
                 worker, batch_managers, added, removed, remove_calls, next_task_id,
                 cache_manager, local_cache, pc, ex, last_error, calls, hist>>

\* mutant: the polling loop does not wait
PollingLoopExits_AtOnce(tasks) == TRUE

\* lines 526-528: the condition the polling loop exits on
PollingLoopExits(tasks) == IsEverythingProcessed(tasks)

\* lines 526-544: the polling loop sees the batch manager empty; the Theta
\* result is assembled from the local cache when one was asked for
PB_Drained ==
  /\ pb.pc = "wait"
  /\ PollingLoopExits(batch_managers[pb.batch_manager])
  /\ pb' = [pb EXCEPT !.pc = "returned",
                      !.drained_removed = remove_calls[pb.batch_manager],
                      !.theta_matrix = IF pb.theta_out THEN local_cache ELSE <<>>]
  /\ UNCHANGED <<config, score_cache, score_tracker, local_score_manager, file_system, external, bad_batches, registry, queue_vars, cache_manager,
                 local_cache, pc, ex, last_error, calls, hist>>

(***************************************************************************)
(* The processor threads (Processor::ThreadFunction).                      *)
(***************************************************************************)
Workers == 1..config.threads

\* a worker pops the head of the processor queue; the idle workers are
\* interchangeable, so the first idle one is the one that pops
WorkerPop(w) ==
  /\ worker[w].st = "idle"
  /\ \A v \in 1..(w - 1) : worker[v].st # "idle"
  /\ processor_queue # <<>>
  /\ worker' = [worker EXCEPT ![w] = [st |-> "busy", pi |-> Head(processor_queue)]]
  /\ processor_queue' = Tail(processor_queue)
  /\ UNCHANGED <<config, score_cache, score_tracker, local_score_manager, file_system, external, bad_batches, registry, batch_managers, added, removed,
                 remove_calls, next_task_id, cache_manager, local_cache, pb, pc,
                 ex, last_error, calls, hist>>

\* whether the worker's task fails: a bad batch, or a source model that is gone
TaskFails(pi, reg, bad) == pi.batch \in bad \/ ~HasModel(reg, pi.model_name)

\* insert(batch_id, slice) overwrites the slice of that batch
CacheInsert(cache, b) == IF b \in Range(cache) THEN cache ELSE Append(cache, b)

\* the registry after the worker deposited its increments into the N target
RegistryAfterTask(pi, reg, bad) ==
  IF TaskFails(pi, reg, bad) \/ ~pi.has_nwt_target_name
     \/ ~HasModel(reg, pi.nwt_target_name)
  THEN reg
  ELSE [reg EXCEPT ![pi.nwt_target_name] =
          IncreaseNwt(@, BatchIncrement(pi.batch, pi.batch_weight, reg[pi.model_name]))]

\* a worker processes the batch it holds
WorkerProcess(w) ==
  /\ worker[w].st = "busy"
  /\ LET pi == worker[w].pi
         ok == ~TaskFails(pi, registry, bad_batches)
     IN /\ registry' = RegistryAfterTask(pi, registry, bad_batches)
        /\ cache_manager' = IF ok /\ pi.cache_manager = "instance"
                            THEN CacheInsert(cache_manager, pi.batch)
                            ELSE cache_manager
        /\ local_cache' = IF ok /\ "local" \in {pi.cache_manager, pi.ptdw_cache_manager}
                          THEN CacheInsert(local_cache, pi.batch)
                          ELSE local_cache
        /\ score_cache' = IF ok /\ pi.score_manager = "null"
                          THEN score_cache \cup {pi.batch}
                          ELSE score_cache
        /\ local_score_manager' = IF ok /\ pi.score_manager = "local"
                                  THEN local_score_manager \cup {pi.batch}
                                  ELSE local_score_manager
  /\ worker' = [worker EXCEPT ![w].st = "processed"]
  /\ UNCHANGED <<config, score_tracker, file_system, external, bad_batches, processor_queue,
                 batch_managers, added, removed, remove_calls, next_task_id, pb,
                 pc, ex, last_error, calls, hist>>

\* mutant: a worker that failed on its batch does not report the task
WorkerRemove_OnlySuccess(w) ==
  /\ worker[w].st = "processed"
  /\ worker[w].pi.batch \notin bad_batches
  /\ LET pi == worker[w].pi
     IN /\ batch_managers' = [batch_managers EXCEPT ![pi.batch_manager] = @ \ {pi.task_id}]
        /\ removed' = [removed EXCEPT ![pi.batch_manager] = @ \cup {pi.task_id}]
        /\ remove_calls' = [remove_calls EXCEPT ![pi.batch_manager] = @ + 1]
  /\ worker' = [worker EXCEPT ![w] = Idle]
  /\ UNCHANGED <<config, score_cache, score_tracker, local_score_manager, file_system, external, bad_batches, registry,
                 processor_queue, added, next_task_id, cache_manager, local_cache,
                 pb, pc, ex, last_error, calls, hist>>

\* a worker reports its task to the batch manager (success or failure)
WorkerRemove(w) ==
  /\ worker[w].st = "processed"
  /\ LET pi == worker[w].pi
     IN /\ batch_managers' = [batch_managers EXCEPT ![pi.batch_manager] = @ \ {pi.task_id}]
        /\ removed' = [removed EXCEPT ![pi.batch_manager] = @ \cup {pi.task_id}]
        /\ remove_calls' = [remove_calls EXCEPT ![pi.batch_manager] = @ + 1]
  /\ worker' = [worker EXCEPT ![w] = Idle]
  /\ UNCHANGED <<config, score_cache, score_tracker, local_score_manager, file_system, external, bad_batches, registry, processor_queue, added,
                 next_task_id, cache_manager, local_cache, pb, pc, ex, last_error,
                 calls, hist>>

WorkerStep ==
  \E w \in Workers : WorkerPop(w) \/ WorkerProcess(w) \/ WorkerRemove(w)

(***************************************************************************)
(* Initial states.                                                         *)
(***************************************************************************)
\* a normalized Phi over AllTokens and AllTopics (as InitializeModel leaves it)
InitialPhi ==
  [topic_name |-> AllTopics, token |-> AllTokens,
   data |-> << <<9, 6>>, <<3, 6>> >>, attached |-> FALSE]

\* an N matrix left by an earlier fit
InitialNwt ==
  [topic_name |-> AllTopics, token |-> AllTokens,
   data |-> << <<4, 1>>, <<2, 3>> >>, attached |-> FALSE]

\* a matrix over another token list and another topic list
OtherNwt ==
  [topic_name |-> <<"t2", "t3">>, token |-> <<"w2", "w3">>,
   data |-> << <<5, 7>>, <<1, 2>> >>, attached |-> FALSE]

\* MasterModelConfig; regularizer_config is the list of the taus
MasterModelConfig(threads, cache_theta, regularizer_config) ==
  [threads |-> threads, cache_theta |-> cache_theta, pwt_name |-> "pwt",
   nwt_name |-> "nwt", regularizer_config |-> regularizer_config,
   score_config |-> <<>>]

\* OnlineBatchesIterator (OfflineBatchesIterator uses the first two fields)
BatchesIterator(batch_filename, batch_weight, update_after, apply_weight, decay_weight) ==
  [batch_filename |-> batch_filename, batch_weight |-> batch_weight,
   update_after |-> update_after, apply_weight |-> apply_weight,
   decay_weight |-> decay_weight, current_ |-> 0]

\* the N targets of the inputs that are queued or held by a processor thread
PendingTargets(queue, threads) ==
  {pi.nwt_target_name :
     pi \in {i \in Range(queue) \cup
                   {threads[w].pi : w \in {v \in 1..MaxThreads : threads[v].st # "idle"}} :
               i.has_nwt_target_name}}

\* no API call is running: the arguments of the call, the registry and the
\* targets of the pending processor inputs it found,
\* and the locals of FitOffline, FitOnline and ArtmExecutor
NoEx ==
  [op |-> "", args |-> NoArgs, async |-> FALSE, pre_registry |-> <<>>,
   pre_targets |-> {}, pre_score_tracker |-> <<>>,
   passes |-> 0, pass |-> 0,
   iter |-> BatchesIterator(<<>>, <<>>, <<>>, <<>>, <<>>),
   pwt_active |-> "", pwt_index |-> 0, nwt_hat_index |-> 0,
   op_id |-> 0, temp_op_id |-> 0, is_last |-> FALSE,
   apply_weight |-> 0, decay_weight |-> 0, async_ |-> <<>>,
   weight_reads |-> {}]

\* history of a fit: the ProcessBatches operations it launched, the
\* operations it awaited, its merges, and nwt and Phi after each Normalize
NoHist ==
  [ops |-> <<>>, awaited |-> {}, merges |-> <<>>, trajectory |-> <<>>,
   steps |-> <<>>]

FullRegistry ==
  [n \in {"pwt", "nwt", "other"} |->
     CASE n = "pwt" -> InitialPhi [] n = "nwt" -> InitialNwt [] OTHER -> OtherNwt]

InitCommon ==
  /\ bad_batches \in {{}, {"b2"}}
  /\ processor_queue = <<>>
  /\ worker = [w \in 1..MaxThreads |-> Idle]
  /\ batch_managers = <<>>
  /\ added = <<>>
  /\ removed = <<>>
  /\ remove_calls = <<>>
  /\ next_task_id = 1
  /\ cache_manager = <<>>
  /\ local_cache = <<>>
  /\ pb = NoPb
  /\ pc = "idle"
  /\ ex = NoEx
  /\ last_error = ""
  /\ calls = 0
  /\ hist = NoHist
  /\ score_cache = {}
  /\ local_score_manager = {}
  /\ external = <<>>

Init ==
  /\ InitCommon
  /\ score_tracker = <<>>
  /\ file_system = <<>>
  /\ config \in {MasterModelConfig(t, c, <<>>) : t \in 0..MaxThreads, c \in BOOLEAN}
  /\ registry = FullRegistry

(***************************************************************************)
(* API calls: Request(ProcessBatchesArgs) and AsyncRequestProcessBatches.  *)
(***************************************************************************)
\* the arguments the API calls of Spec are issued with: calls that pass the
\* validation (three batches, filenames and inline, with and without a
\* target and with every theta_matrix_type; one batch; no batch), and calls
\* that name a missing source or the source as target
ApiWeights(n) == SubSeq(<<1, 2, 3>>, 1, n)

ApiArgs(pwt, nwt, b, theta) ==
  ProcessBatchesArgs(pwt, nwt # "", IF nwt = "same" THEN pwt ELSE nwt, b[1], b[2],
                     ApiWeights(Len(b[1]) + Len(b[2])), theta)

ApiProcessBatchesArgs ==
  {ApiArgs("pwt", nwt, <<<<"b1", "b2">>, <<"b3">>>>, theta) :
     nwt \in {"", "nwt"}, theta \in ThetaMatrixTypes}
  \cup
  {ApiArgs("pwt", "nwt", <<<<"b4">>, <<>>>>, theta) : theta \in {"None", "Cache", "Dense"}}
  \cup
  {ApiArgs("pwt", "nwt", <<<<>>, <<>>>>, theta) : theta \in {"None", "Dense"}}
  \cup
  {ApiArgs(pn[1], pn[2], <<<<"b1", "b2">>, <<"b3">>>>, theta) :
     pn \in {<<"nomodel", "">>, <<"nomodel", "nwt">>, <<"nomodel", "same">>,
             <<"pwt", "same">>},
     theta \in {"None", "Dense"}}

\* the behaviours of Spec enqueue at most MaxTasks tasks
WithinTasks(args) == (next_task_id - 1) + BatchCountOf(args) <= MaxTasks

\* an API call starts: its arguments and the registry it found
StartCall(op, args, async) ==
  /\ pc = "idle"
  /\ calls < MaxCalls
  /\ calls' = calls + 1
  /\ ex' = [NoEx EXCEPT !.op = op, !.args = args, !.async = async,
                        !.pre_registry = registry,
                        !.pre_targets = PendingTargets(processor_queue, worker)]

\* lines 403-407 up to the first enqueue
Request_ProcessBatches(args) ==
  /\ WithinTasks(args)
  /\ StartCall("Request_ProcessBatches", args, FALSE)
  /\ CallProcessBatchesImpl(args, FALSE, "null", TRUE, "Request_ProcessBatches", "thrown")
  /\ local_cache' = <<>>
  /\ UNCHANGED <<config, score_cache, score_tracker, local_score_manager, file_system, external, bad_batches, processor_queue, worker, next_task_id,
                 cache_manager, hist>>

\* lines 419-423 up to the first enqueue
AsyncRequestProcessBatches(args) ==
  /\ WithinTasks(args)
  /\ StartCall("AsyncRequestProcessBatches", args, TRUE)
  /\ CallProcessBatchesImpl(args, TRUE, "null", FALSE, "AsyncRequestProcessBatches", "thrown")
  /\ local_cache' = <<>>
  /\ UNCHANGED <<config, score_cache, score_tracker, local_score_manager, file_system, external, bad_batches, processor_queue, worker, next_task_id,
                 cache_manager, hist>>

\* RequestProcessBatchesImpl returned to the API call, which returns; the
\* stack-local CacheManager is gone
Request_Return ==
  /\ pc \in {"Request_ProcessBatches", "AsyncRequestProcessBatches", "Request_Transform"}
  /\ pb.pc = "returned"
  /\ pc' = "idle"
  /\ pb' = NoPb
  /\ ex' = NoEx
  /\ local_cache' = <<>>
  /\ UNCHANGED <<config, score_cache, score_tracker, local_score_manager, file_system, external, bad_batches, registry, queue_vars, cache_manager,
                 last_error, calls, hist>>

\* the exception of an API call reached the caller
Api_Thrown ==
  /\ pc = "thrown"
  /\ pc' = "idle"
  /\ ex' = NoEx
  /\ last_error' = ""
  /\ UNCHANGED <<config, score_cache, score_tracker, local_score_manager, file_system, external, bad_batches, registry, queue_vars, cache_manager,
                 local_cache, pb, calls, hist>>

Next ==
  \/ \E args \in ApiProcessBatchesArgs : Request_ProcessBatches(args)
  \/ \E args \in ApiProcessBatchesArgs : AsyncRequestProcessBatches(args)
  \/ Request_Return
  \/ Api_Thrown
  \/ PB_Enqueue
  \/ PB_Push
  \/ PB_Drained
  \/ WorkerStep

Spec == Init /\ [][Next]_vars

\* the steps of processor thread w
WorkerThread(w) ==
  w \in Workers /\ (WorkerPop(w) \/ WorkerProcess(w) \/ WorkerRemove(w))

\* the threads run: the calling thread goes on through its enqueue loops
\* and its polling loop, and every processor thread is scheduled
Fairness ==
  /\ WF_vars(PB_Enqueue)
  /\ WF_vars(PB_Push)
  /\ WF_vars(PB_Drained)
  /\ \A w \in 1..MaxThreads : WF_vars(WorkerThread(w))

\* the calls of the behaviours the termination of a synchronous call is
\* checked on: a call over three batches, a call over one batch, and a call
\* that throws before it enqueues anything
ApiLiveArgs ==
  {ApiArgs("pwt", "nwt", <<<<"b1", "b2">>, <<"b3">>>>, "Cache"),
   ApiArgs("pwt", "", <<<<"b4">>, <<>>>>, "None"),
   ApiArgs("nomodel", "", <<<<"b1", "b2">>, <<"b3">>>>, "None")}

NextLive ==
  \/ \E args \in ApiLiveArgs : Request_ProcessBatches(args)
  \/ \E args \in ApiLiveArgs : AsyncRequestProcessBatches(args)
  \/ Request_Return
  \/ Api_Thrown
  \/ PB_Enqueue
  \/ PB_Push
  \/ PB_Drained
  \/ WorkerStep

SpecLive == Init /\ [][NextLive]_vars /\ Fairness

(***************************************************************************)
(* Properties of RequestProcessBatchesImpl, checked under Spec.            *)
(***************************************************************************)
\* the BatchManager of the last ProcessBatches call
LastBatchManager == Len(batch_managers)

InvalidOperations ==
  {"InvalidOperation:NoProcessors", "InvalidOperation:MissingModel",
   "InvalidOperation:SourceIsTarget", "InvalidOperation:AsyncWithTheta"}

\* a ProcessBatches call, synchronous or asynchronous, is running or has
\* just thrown
InProcessBatches == ex.op \in {"Request_ProcessBatches", "AsyncRequestProcessBatches"}

\* the running call registered no task and pushed nothing
NothingEnqueued ==
  /\ pb = NoPb
  /\ added[LastBatchManager] = {}
  /\ batch_managers[LastBatchManager] = {}
  /\ \A i \in 1..Len(processor_queue) : processor_queue[i].batch_manager # LastBatchManager
  /\ \A w \in 1..MaxThreads : worker[w].pi.batch_manager # LastBatchManager

\* the running call named the same model as source and as target
CallSourceIsTarget ==
  /\ InProcessBatches
  /\ ex.args.has_nwt_target_name
  /\ ex.args.nwt_target_name = ex.args.pwt_source_name

\* C1 (Drain): when a synchronous ProcessBatches call returns, none of its
\* task ids is in its batch manager, every one of its M tasks was removed
\* exactly once, and the poll that saw the batch manager empty came after
\* exactly M Remove calls.
C1_Drain ==
  (pb.pc = "returned" /\ ~pb.async) =>
     /\ batch_managers[pb.batch_manager] = {}
     /\ Cardinality(added[pb.batch_manager]) = BatchCountOf(pb.args)
     /\ removed[pb.batch_manager] = added[pb.batch_manager]
     /\ remove_calls[pb.batch_manager] = BatchCountOf(pb.args)
     /\ pb.drained_removed = BatchCountOf(pb.args)
     /\ \A w \in 1..MaxThreads : worker[w].pi.batch_manager # pb.batch_manager

C1_Witness ==
  /\ pb.pc = "returned" /\ ~pb.async
  /\ config.threads = 2
  /\ BatchCountOf(pb.args) = 3
  /\ Len(pb.args.batch_filename) = 2

\* C8: with zero worker threads every ProcessBatches call, synchronous or
\* asynchronous, ends with the no-processors InvalidOperation whatever else is
\* wrong with its arguments; it registers no task, pushes nothing and
\* installs no N target, and the call is over in one step.
C8_NoProcessors ==
  (InProcessBatches /\ config.threads = 0) =>
     /\ pc = "thrown"
     /\ last_error = "InvalidOperation:NoProcessors"
     /\ NothingEnqueued
     /\ processor_queue = <<>>
     /\ registry = ex.pre_registry

C8_Witness ==
  /\ InProcessBatches /\ config.threads = 0
  /\ ex.async /\ ex.args.theta_matrix_type = "Dense"
  /\ CallSourceIsTarget
  /\ ~HasModel(ex.pre_registry, ex.args.pwt_source_name)
  /\ last_error = "InvalidOperation:NoProcessors"

\* C9: a ProcessBatches call whose nwt_target is its pwt_source ends with
\* InvalidOperation, the source model is what it was before the call, and no
\* task is registered or enqueued.
C9_SourceIsTarget ==
  CallSourceIsTarget =>
     /\ pc = "thrown"
     /\ last_error \in InvalidOperations
     /\ NothingEnqueued
     /\ HasModel(registry, ex.args.pwt_source_name)
          = HasModel(ex.pre_registry, ex.args.pwt_source_name)
     /\ HasModel(registry, ex.args.pwt_source_name) =>
          registry[ex.args.pwt_source_name] = ex.pre_registry[ex.args.pwt_source_name]

C9_Witness ==
  /\ CallSourceIsTarget
  /\ last_error = "InvalidOperation:SourceIsTarget"
  /\ registry["pwt"] = InitialPhi

\* C10: an asynchronous ProcessBatches call with a theta_matrix_type other
\* than None ends with InvalidOperation and enqueues no task; with None it
\* never waits for its batch manager, and it has returned once all its tasks
\* are registered.
C10_AsyncTheta ==
  /\ (InProcessBatches /\ ex.async /\ ex.args.theta_matrix_type # "None") =>
        (pc = "thrown" /\ last_error \in InvalidOperations /\ NothingEnqueued)
  /\ pb.async => (pb.pc # "wait" /\ pb.args.theta_matrix_type = "None")
  /\ (pb.async /\ pb.pc = "returned") =>
        Cardinality(added[pb.batch_manager]) = BatchCountOf(pb.args)

\* an asynchronous call has returned while all its tasks are outstanding
C10_Witness ==
  /\ pb.async /\ pb.pc = "returned"
  /\ Cardinality(batch_managers[pb.batch_manager]) = 3
  /\ Len(processor_queue) = 3

\* the ProcessorInputs that exist: held by the enqueue loop, in the processor
\* queue, or held by a worker
BusyWorkers == {w \in 1..MaxThreads : worker[w].st # "idle"}

VisibleInputs == Range(processor_queue) \cup {worker[w].pi : w \in BusyWorkers}

LiveInputs == VisibleInputs \cup (IF pb.pc = "push" THEN {pb.pi} ELSE {})

\* the batches of a call in the order of its arguments
SubmittedBatches(args) == args.batch_filename \o args.batch

\* C12: every ProcessorInput of the running call carries the cache handles
\* its theta_matrix_type asks for (None: none; Cache: the Instance cache as
\* theta cache iff config.cache_theta; Dense, Sparse: the call-local cache as
\* theta cache only; DensePtdw, SparsePtdw: the call-local cache as ptdw
\* cache only), an input left by an earlier asynchronous call carries none,
\* and only a call with one of the last four types returns a Theta.
C12_CacheHandles ==
  /\ \A pi \in LiveInputs :
       LET t == IF pi.call = pb.call THEN pb.args.theta_matrix_type ELSE "None"
       IN /\ pi.cache_manager =
               (CASE t \in {"Dense", "Sparse"} -> "local"
                  [] t = "Cache" /\ config.cache_theta -> "instance"
                  [] OTHER -> "null")
          /\ pi.ptdw_cache_manager =
               (IF t \in {"DensePtdw", "SparsePtdw"} THEN "local" ELSE "null")
  /\ pb.theta_matrix # <<>> =>
       pb.args.theta_matrix_type \in {"Dense", "Sparse", "DensePtdw", "SparsePtdw"}

\* a worker holds an input of a Cache call on an instance with cache_theta,
\* while the next input of the call waits in the queue
C12_Witness ==
  /\ config.cache_theta
  /\ pb.args.theta_matrix_type = "Cache"
  /\ \E w \in BusyWorkers : worker[w].pi.cache_manager = "instance"
  /\ \E i \in 1..Len(processor_queue) : processor_queue[i].cache_manager = "instance"

\* C13: a synchronous Dense or Sparse call over batches with distinct ids,
\* none of which fails, returns a Theta holding the slice of every submitted
\* batch exactly once; the Theta is assembled only when the batch manager
\* is empty, and from then on no input that writes the local cache exists.
C13_ThetaComplete ==
  /\ (pb.pc = "returned" /\ ~pb.async /\ pb.theta_out
        /\ pb.args.theta_matrix_type \in {"Dense", "Sparse"}) =>
       LET b == SubmittedBatches(pb.args)
       IN (Cardinality(Range(b)) = Len(b) /\ Range(b) \cap bad_batches = {}) =>
            /\ Len(pb.theta_matrix) = Len(b)
            /\ Range(pb.theta_matrix) = Range(b)
  /\ (pb.pc = "returned" /\ ~pb.async) =>
       /\ batch_managers[pb.batch_manager] = {}
       /\ \A pi \in LiveInputs : "local" \notin {pi.cache_manager, pi.ptdw_cache_manager}

\* two workers filled the local cache of a Dense call over three batches
C13_Witness ==
  /\ pb.pc = "returned" /\ ~pb.async
  /\ pb.args.theta_matrix_type = "Dense"
  /\ config.threads = 2
  /\ bad_batches = {}
  /\ Len(pb.theta_matrix) = 3
  /\ pb.theta_matrix # SubmittedBatches(pb.args)

\* the queued inputs of the running call, in queue order
QueuedOfCall ==
  SelectSeq(processor_queue, LAMBDA pi : pi.batch_manager = pb.batch_manager)

\* the number of inputs the running call has pushed
Pushed == pb.batch_index

\* C20: every ProcessorInput in the queue or held by a worker has its task
\* id in the set of ids added to its batch manager, and the id is still in
\* the batch manager while the worker has not removed it; the ids one call
\* drew are pairwise distinct; the queued inputs of the running call are the
\* last pushed ones in the order all filename batches, then all inline
\* batches; no id was removed that was not added.
C20_EnqueueOrder ==
  /\ \A pi \in VisibleInputs :
       /\ pi.task_id \in added[pi.batch_manager]
       /\ pi.task_id \in batch_managers[pi.batch_manager]
  /\ \A h \in 1..Len(batch_managers) : removed[h] \subseteq added[h]
  /\ pb.pc \in {"enqueue", "push", "wait", "returned"} =>
       /\ Cardinality(added[pb.batch_manager])
            = Pushed + (IF pb.pc = "push" THEN 1 ELSE 0)
       /\ LET q == QueuedOfCall
              b == SubmittedBatches(pb.args)
          IN /\ Len(q) <= Pushed
             /\ \A i \in 1..Len(q) : q[i].batch = b[Pushed - Len(q) + i]

\* the third input of a call, its inline batch, was created and registered
\* but is not pushed yet, while a worker holds the first input and the
\* second one is queued
C20_Witness ==
  /\ pb.pc = "push"
  /\ pb.batch_index = 2
  /\ pb.pi.batch = "b3"
  /\ pb.pi.task_id \in batch_managers[pb.batch_manager]
  /\ Len(QueuedOfCall) = 1
  /\ \E w \in BusyWorkers : worker[w].pi.batch = "b1"

\* a synchronous call passed its validation and has not returned yet
SyncCallRunning == ~pb.async /\ pb.pc \in {"enqueue", "push", "wait"}

\* C14: with the processor threads scheduled fairly, every synchronous
\* ProcessBatches call that passed its validation (so at least one worker
\* exists) eventually returns, also when workers fail on its batches.
C14_SyncReturns == SyncCallRunning ~> (pb.pc = "returned")

\* a synchronous call returned although a worker failed on one of its
\* batches: its three tasks were removed
C14_Witness ==
  /\ pb.pc = "returned" /\ ~pb.async
  /\ bad_batches = {"b2"}
  /\ "b2" \in Range(SubmittedBatches(pb.args))
  /\ Cardinality(removed[pb.batch_manager]) = 3
  /\ config.threads = 1

(***************************************************************************)
(* Request(TransformMasterModelArgs) and the external request variants.    *)
(***************************************************************************)
\* TransformMasterModelArgs
TransformMasterModelArgs(batch_filename, batch, theta_matrix_type) ==
  [batch_filename |-> batch_filename, batch |-> batch,
   theta_matrix_type |-> theta_matrix_type]

\* FixMessage(ProcessBatchesArgs*): missing batch weights default to 1.0
FixMessage(args) ==
  IF args.batch_weight # <<>> THEN args
  ELSE [args EXCEPT !.batch_weight = [i \in 1..BatchCountOf(args) |-> 1]]

\* lines 679-698: the ProcessBatchesArgs Transform builds; no nwt target
TransformProcessBatchesArgs(args, cfg) ==
  FixMessage(ProcessBatchesArgs(cfg.pwt_name, FALSE, "", args.batch_filename,
                                args.batch, <<>>, args.theta_matrix_type))

\* mutant: the Theta cache is cleared whatever the theta_matrix_type
CacheAfterTransformClear_Always(args, cache) == <<>>

\* lines 675-676: ClearThetaCache when theta_matrix_type is Cache
CacheAfterTransformClear(args, cache) ==
  IF args.theta_matrix_type = "Cache" THEN <<>> ELSE cache

\* lines 669-703 up to the first enqueue; the orchestrator waits at `at`
TransformImpl(op, args, at) ==
  LET pba == TransformProcessBatchesArgs(args, config)
  IN /\ WithinTasks(pba)
     /\ StartCall(op, pba, FALSE)
     /\ cache_manager' = CacheAfterTransformClear(args, cache_manager)
     /\ score_cache' = {}
     /\ CallProcessBatchesImpl(pba, FALSE, "null", TRUE, at, "thrown")
     /\ local_cache' = <<>>
     /\ UNCHANGED <<config, score_tracker, local_score_manager, file_system, external,
                    bad_batches, processor_queue, worker, next_task_id, hist>>

Request_Transform(args) == TransformImpl("Request_Transform", args, "Request_Transform")

\* mutant: the external variants accept every theta_matrix_type
IsDenseTheta_Unchecked(theta_matrix_type) == TRUE

\* lines 410-412 and 708-710: is_dense_theta || is_dense_ptdw
IsDenseTheta(theta_matrix_type) == theta_matrix_type \in {"Dense", "DensePtdw"}

\* an external request whose layout is not dense throws before anything else
ThrowNotDense(op, args) ==
  /\ StartCall(op, args, FALSE)
  /\ pc' = "thrown"
  /\ last_error' = "InvalidOperation:NotDense"
  /\ UNCHANGED <<config, score_cache, score_tracker, local_score_manager, file_system, external, bad_batches, registry,
                 queue_vars, cache_manager, local_cache, pb, hist>>

\* lines 705-715
Request_Transform_External(args) ==
  IF IsDenseTheta(args.theta_matrix_type)
  THEN TransformImpl("Request_Transform_External", args, "Request_External")
  ELSE ThrowNotDense("Request_Transform_External", args)

\* lines 409-417
Request_ProcessBatches_External(args) ==
  IF IsDenseTheta(args.theta_matrix_type)
  THEN /\ WithinTasks(args)
       /\ StartCall("Request_ProcessBatches_External", args, FALSE)
       /\ CallProcessBatchesImpl(args, FALSE, "null", TRUE, "Request_External", "thrown")
       /\ local_cache' = <<>>
       /\ UNCHANGED <<config, score_cache, score_tracker, local_score_manager, file_system, external, bad_batches,
                      processor_queue, worker, next_task_id, cache_manager, hist>>
  ELSE ThrowNotDense("Request_ProcessBatches_External", args)

\* HandleExternalThetaMatrixRequest (lines 52-64): the item weights are
\* copied into the caller's buffer
HandleExternalThetaMatrixRequest(theta_matrix) ==
  [rows |-> Len(theta_matrix), values |-> theta_matrix]

\* HandleExternalTopicModelRequest (lines 38-50): token_weights row-major
HandleExternalTopicModelRequest(topic_model) ==
  [rows |-> Len(topic_model.token),
   values |-> [i \in 1..(Len(topic_model.token) * Len(topic_model.topic_name)) |->
                 topic_model.token_weights[((i - 1) \div Len(topic_model.topic_name)) + 1]
                                          [((i - 1) % Len(topic_model.topic_name)) + 1]]]

\* lines 416 and 714: the inner Request returned, the Theta is copied out
Request_Return_External ==
  /\ pc = "Request_External"
  /\ pb.pc = "returned"
  /\ external' = HandleExternalThetaMatrixRequest(pb.theta_matrix)
  /\ pc' = "idle"
  /\ pb' = NoPb
  /\ ex' = NoEx
  /\ local_cache' = <<>>
  /\ UNCHANGED <<config, score_cache, score_tracker, local_score_manager, file_system, bad_batches, registry, queue_vars,
                 cache_manager, last_error, calls, hist>>

\* GetTopicModelArgs and GetThetaMatrixArgs
GetArgs(model_name, matrix_layout) ==
  [model_name |-> model_name, matrix_layout |-> matrix_layout]

\* lines 383-389 (with Request(GetTopicModelArgs), lines 374-381)
Request_GetTopicModel_External(args) ==
  IF args.matrix_layout # "Dense"
  THEN ThrowNotDense("Request_GetTopicModel_External", args)
  ELSE /\ StartCall("Request_GetTopicModel_External", args, FALSE)
       /\ IF HasModel(registry, args.model_name)
          THEN /\ external' = HandleExternalTopicModelRequest(
                                RetrieveExternalTopicModel(registry[args.model_name]))
               /\ pc' = "returned"
               /\ last_error' = ""
          ELSE /\ external' = external
               /\ pc' = "thrown"
               /\ last_error' = "InvalidOperation:MissingModel"
       /\ UNCHANGED <<config, score_cache, score_tracker, local_score_manager, file_system, bad_batches, registry,
                      queue_vars, cache_manager, local_cache, pb, hist>>

\* lines 657-665 (with Request(GetThetaMatrixArgs), lines 653-655)
Request_GetThetaMatrix_External(args) ==
  IF args.matrix_layout # "Dense"
  THEN ThrowNotDense("Request_GetThetaMatrix_External", args)
  ELSE /\ StartCall("Request_GetThetaMatrix_External", args, FALSE)
       /\ external' = HandleExternalThetaMatrixRequest(cache_manager)
       /\ pc' = "returned"
       /\ last_error' = ""
       /\ UNCHANGED <<config, score_cache, score_tracker, local_score_manager, file_system, bad_batches, registry,
                      queue_vars, cache_manager, local_cache, pb, hist>>

\* an API call that ran in one step returns to its caller
Api_Return ==
  /\ pc = "returned"
  /\ pc' = "idle"
  /\ ex' = NoEx
  /\ UNCHANGED <<config, score_cache, score_tracker, local_score_manager, file_system, external, bad_batches, registry,
                 queue_vars, cache_manager, local_cache, pb, last_error, calls, hist>>

\* the instances of SpecRequest; the Instance caches start empty and are
\* filled by a ProcessBatches call over batch b4
InitRequest ==
  /\ InitCommon
  /\ score_tracker = <<>>
  /\ file_system = <<>>
  /\ config \in {MasterModelConfig(t, c, <<>>) : t \in 0..MaxThreads, c \in BOOLEAN}
  /\ registry = FullRegistry

\* the arguments the calls of SpecRequest are issued with
ApiTransformArgs ==
  {TransformMasterModelArgs(<<"b1", "b2">>, <<>>, theta) : theta \in ThetaMatrixTypes}

ApiExternalArgs ==
  {ApiArgs("pwt", nwt, <<<<"b4">>, <<>>>>, theta) :
     nwt \in {"", "nwt"}, theta \in ThetaMatrixTypes}

ApiCacheArgs == {ApiArgs("pwt", "", <<<<"b4">>, <<>>>>, "Cache")}

ApiGetArgs == {GetArgs(n, l) : n \in {"pwt", "nomodel"}, l \in {"Dense", "Sparse"}}

NextRequest ==
  \/ \E args \in ApiCacheArgs : Request_ProcessBatches(args)
  \/ \E args \in ApiTransformArgs : Request_Transform(args)
  \/ \E args \in ApiTransformArgs : Request_Transform_External(args)
  \/ \E args \in ApiExternalArgs : Request_ProcessBatches_External(args)
  \/ \E args \in ApiGetArgs : Request_GetTopicModel_External(args)
  \/ \E args \in ApiGetArgs : Request_GetThetaMatrix_External(args)
  \/ Request_Return
  \/ Request_Return_External
  \/ Api_Return
  \/ Api_Thrown
  \/ PB_Enqueue
  \/ PB_Push
  \/ PB_Drained
  \/ WorkerStep

SpecRequest == InitRequest /\ [][NextRequest]_vars

(***************************************************************************)
(* Properties of Transform and of the external requests, checked under     *)
(* SpecRequest.                                                            *)
(***************************************************************************)
TransformOps == {"Request_Transform", "Request_Transform_External"}

ExternalOps ==
  {"Request_Transform_External", "Request_ProcessBatches_External",
   "Request_GetTopicModel_External", "Request_GetThetaMatrix_External"}

\* the step that starts a Transform call that passes the dense check
StartsTransform ==
  /\ pc = "idle" /\ ex'.op \in TransformOps
  /\ (ex'.op = "Request_Transform_External" => IsDenseTheta(ex'.args.theta_matrix_type))

\* a step taken while such a Transform call runs, the steps of the workers
\* on its tasks included
InTransform == ex.op \in TransformOps /\ last_error # "InvalidOperation:NotDense"

\* C18: no step of a Transform call changes the registry; its first step,
\* which precedes every enqueue, empties the Instance score cache; the
\* Instance Theta cache is emptied by that step iff theta_matrix_type is
\* Cache, is filled afterwards only for Cache on an instance with
\* cache_theta, and is never changed for any other theta_matrix_type.
C18_TransformFrame ==
  [][/\ (StartsTransform \/ InTransform) => registry' = registry
     /\ StartsTransform =>
          /\ score_cache' = {}
          /\ processor_queue' = processor_queue
          /\ next_task_id' = next_task_id
          /\ ~ex'.args.has_nwt_target_name
          /\ ex'.args.pwt_source_name = config.pwt_name
          /\ cache_manager' = (IF ex'.args.theta_matrix_type = "Cache"
                               THEN <<>> ELSE cache_manager)
     /\ InTransform =>
          \/ cache_manager' = cache_manager
          \/ ex.args.theta_matrix_type = "Cache" /\ config.cache_theta]_vars

\* a Dense Transform over b1 and b2 ran after a Cache call over b4: the
\* Theta cache still holds the slice of b4, the score cache holds the scores
\* of b1 and b2 only
C18_Witness ==
  /\ ex.op = "Request_Transform"
  /\ ex.args.theta_matrix_type = "Dense"
  /\ pb.pc = "returned"
  /\ cache_manager = <<"b4">>
  /\ score_cache = {"b1", "b2"}
  /\ registry = FullRegistry

\* the step that starts an external request whose layout is not dense
StartsNonDenseExternal ==
  /\ pc = "idle" /\ ex'.op \in ExternalOps
  /\ IF ex'.op \in {"Request_GetTopicModel_External", "Request_GetThetaMatrix_External"}
     THEN ex'.args.matrix_layout # "Dense"
     ELSE ex'.args.theta_matrix_type \notin {"Dense", "DensePtdw"}

\* C19: an external request (GetTopicModel, GetThetaMatrix, ProcessBatches,
\* Transform) whose layout or theta type is not dense ends with
\* InvalidOperation in its first step, which registers and enqueues no
\* task, clears no cache, changes no registry entry and leaves the caller's
\* buffer as it was.
C19_NonDenseExternal ==
  [][StartsNonDenseExternal =>
       /\ pc' = "thrown"
       /\ last_error' = "InvalidOperation:NotDense"
       /\ UNCHANGED <<registry, queue_vars, cache_manager, score_cache, local_cache,
                      external, pb>>]_vars

\* an external Transform with theta_matrix_type Cache was refused: the
\* caches an earlier Cache call filled are still full
C19_Witness ==
  /\ pc = "thrown"
  /\ last_error = "InvalidOperation:NotDense"
  /\ ex.op = "Request_Transform_External"
  /\ ex.args.theta_matrix_type = "Cache"
  /\ cache_manager = <<"b4">>
  /\ score_cache = {"b4"}
  /\ processor_queue = <<>>

(***************************************************************************)
(* MasterComponent::MergeModel, RegularizeModel, NormalizeModel.  Each     *)
(* operator gives the outcome of the whole call on a registry: the         *)
(* exception it ends with ("" when it returns) and the registry it leaves. *)
(***************************************************************************)
Returned(reg) == [error |-> "", registry |-> reg]

Thrown(error, reg) == [error |-> error, registry |-> reg]

\* MergeModelArgs; an empty topic_name means the field is not set
MergeModelArgs(sources, weights, target, topic_name) ==
  [nwt_source_name |-> sources, source_weight |-> weights,
   nwt_target_name |-> target, topic_name |-> topic_name]

\* a shared_ptr that is null (<<>>) or holds a matrix (<<m>>)
Null == <<>>

\* mutant: a source named as the target is read from the target being built
MergeSource_InPlace(reg, nwt_target, args, model_name) ==
  IF model_name = args.nwt_target_name /\ nwt_target # Null THEN nwt_target
  ELSE IF HasModel(reg, model_name) THEN <<reg[model_name]>> ELSE Null

\* line 562: instance_->GetPhiMatrix(model_name)
MergeSource(reg, nwt_target, args, model_name) ==
  IF HasModel(reg, model_name) THEN <<reg[model_name]>> ELSE Null

\* lines 556-580: the loop over the sources, from the i-th on
RECURSIVE MergeFrom(_, _, _, _)
MergeFrom(args, reg, i, nwt_target) ==
  IF i > Len(args.nwt_source_name) THEN nwt_target
  ELSE LET phi_matrix == MergeSource(reg, nwt_target, args, args.nwt_source_name[i])
           weight == args.source_weight[i]
       IN IF phi_matrix = Null THEN MergeFrom(args, reg, i + 1, nwt_target)
          ELSE LET n_wt == phi_matrix[1]
                   target == IF nwt_target = Null
                             THEN DensePhiMatrix(IF args.topic_name # <<>>
                                                 THEN args.topic_name
                                                 ELSE n_wt.topic_name)
                             ELSE nwt_target[1]
                   merged == IF Len(n_wt.token) > 0
                             THEN ApplyTopicModelOperation(
                                    RetrieveExternalTopicModel(n_wt), weight, target)
                             ELSE target
               IN MergeFrom(args, reg, i + 1, <<merged>>)

\* mutant: with no source found an empty target is installed
MergeModel_EmptyTarget(args, reg) ==
  IF Len(args.nwt_source_name) = 0
    THEN Thrown("InvalidOperation:NoSourceName", reg)
  ELSE IF Len(args.nwt_source_name) # Len(args.source_weight)
    THEN Thrown("InvalidOperation:SourceWeightSize", reg)
  ELSE LET nwt_target == MergeFrom(args, reg, 1, Null)
       IN Returned(SetPhiMatrix(reg, args.nwt_target_name,
                     IF nwt_target = Null THEN DensePhiMatrix(args.topic_name)
                     ELSE nwt_target[1]))

\* lines 546-588
MergeModel(args, reg) ==
  IF Len(args.nwt_source_name) = 0
    THEN Thrown("InvalidOperation:NoSourceName", reg)
  ELSE IF Len(args.nwt_source_name) # Len(args.source_weight)
    THEN Thrown("InvalidOperation:SourceWeightSize", reg)
  ELSE LET nwt_target == MergeFrom(args, reg, 1, Null)
       IN IF nwt_target = Null
          THEN Thrown("InvalidOperation:NoModelsToMerge", reg)
          ELSE Returned(SetPhiMatrix(reg, args.nwt_target_name, nwt_target[1]))

\* RegularizeModelArgs
RegularizeModelArgs(has_pwt, pwt, has_nwt, nwt, has_rwt, rwt, settings) ==
  [has_pwt_source_name |-> has_pwt, pwt_source_name |-> pwt,
   has_nwt_source_name |-> has_nwt, nwt_source_name |-> nwt,
   has_rwt_target_name |-> has_rwt, rwt_target_name |-> rwt,
   regularizer_settings |-> settings]

\* PhiMatrixOperations::InvokePhiRegularizers: every regularizer of the
\* settings takes its tau off every cell of r_wt
InvokePhiRegularizers(settings, p_wt, n_wt, r_wt) ==
  [r_wt EXCEPT !.data = [i \in 1..Len(r_wt.token) |->
                           [j \in 1..Len(r_wt.topic_name) |-> @[i][j] - SumSeq(settings)]]]

\* lines 590-615
RegularizeModel(args, reg) ==
  IF ~args.has_pwt_source_name THEN Thrown("InvalidOperation:NoPwtSourceName", reg)
  ELSE IF ~args.has_nwt_source_name THEN Thrown("InvalidOperation:NoNwtSourceName", reg)
  ELSE IF ~args.has_rwt_target_name THEN Thrown("InvalidOperation:NoRwtTargetName", reg)
  ELSE IF ~HasModel(reg, args.nwt_source_name) THEN Thrown("InvalidOperation:MissingModel", reg)
  ELSE IF ~HasModel(reg, args.pwt_source_name) THEN Thrown("InvalidOperation:MissingModel", reg)
  ELSE LET n_wt == reg[args.nwt_source_name]
           p_wt == reg[args.pwt_source_name]
           rwt_target == Reshape(DensePhiMatrix(n_wt.topic_name), n_wt)
       IN Returned(SetPhiMatrix(reg, args.rwt_target_name,
                     InvokePhiRegularizers(args.regularizer_settings, p_wt, n_wt, rwt_target)))

\* NormalizeModelArgs
NormalizeModelArgs(has_pwt, pwt, has_nwt, nwt, has_rwt, rwt) ==
  [has_pwt_target_name |-> has_pwt, pwt_target_name |-> pwt,
   has_nwt_source_name |-> has_nwt, nwt_source_name |-> nwt,
   has_rwt_source_name |-> has_rwt, rwt_source_name |-> rwt]

\* lines 617-641
NormalizeModel(args, reg) ==
  IF ~args.has_pwt_target_name THEN Thrown("InvalidOperation:NoPwtTargetName", reg)
  ELSE IF ~args.has_nwt_source_name THEN Thrown("InvalidOperation:NoNwtSourceName", reg)
  ELSE IF ~HasModel(reg, args.nwt_source_name) THEN Thrown("InvalidOperation:MissingModel", reg)
  ELSE IF args.has_rwt_source_name /\ ~HasModel(reg, args.rwt_source_name)
    THEN Thrown("InvalidOperation:MissingModel", reg)
  ELSE LET n_wt == reg[args.nwt_source_name]
           pwt_target == Reshape(DensePhiMatrix(n_wt.topic_name), n_wt)
       IN Returned(SetPhiMatrix(reg, args.pwt_target_name,
                     [pwt_target EXCEPT !.data =
                        IF args.has_rwt_source_name
                        THEN FindPwt(n_wt, reg[args.rwt_source_name])
                        ELSE FindPwtNoR(n_wt)]))

(***************************************************************************)
(* API calls on the registry: SpecMerge.                                   *)
(***************************************************************************)
\* the source lists, weights and targets MergeModel is called with
MergeNames == {"nwt", "other", "empty", "nomodel"}

MergeWeights == {2, 3}

ApiMergeModelArgs ==
  {MergeModelArgs(<<a, b>>, <<wa, wb>>, t, tn) :
     a \in MergeNames, b \in MergeNames, wa \in MergeWeights, wb \in MergeWeights,
     t \in {"other", "merged"}, tn \in {<<>>}}
  \cup
  {MergeModelArgs(<<"nwt", "other">>, w, "nwt", tn) :
     w \in {<<2>>, <<1, 2>>}, tn \in {<<>>, <<"t2", "t3", "t4">>}}
  \cup {MergeModelArgs(<<>>, <<>>, "merged", <<>>),
        MergeModelArgs(<<"nomodel", "other">>, <<2, 3>>, "merged", <<"t3", "t1">>)}

\* a matrix with topics and no token
EmptyNwt == DensePhiMatrix(AllTopics)

MergeRegistry ==
  [n \in {"pwt", "nwt", "other", "empty"} |->
     CASE n = "pwt" -> InitialPhi [] n = "nwt" -> InitialNwt
       [] n = "other" -> OtherNwt [] OTHER -> EmptyNwt]

InitMerge ==
  /\ InitCommon
  /\ score_tracker = <<>>
  /\ file_system = <<>>
  /\ config = MasterModelConfig(1, FALSE, <<>>)
  /\ registry = MergeRegistry

\* an API call that runs to its end in one step on the orchestrator thread
ApiCall(op, args, result) ==
  /\ StartCall(op, args, FALSE)
  /\ registry' = result.registry
  /\ last_error' = result.error
  /\ pc' = IF result.error = "" THEN "returned" ELSE "thrown"
  /\ UNCHANGED <<config, score_cache, score_tracker, local_score_manager, file_system, external, bad_batches, queue_vars, cache_manager, local_cache, pb, hist>>

\* MasterComponent::MergeModel called through the API
Api_MergeModel(args) == ApiCall("MergeModel", args, MergeModel(args, registry))

NextMerge ==
  \/ \E args \in ApiMergeModelArgs : Api_MergeModel(args)
  \/ Api_Return
  \/ Api_Thrown

SpecMerge == InitMerge /\ [][NextMerge]_vars

(***************************************************************************)
(* Properties of MergeModel, checked under SpecMerge.                      *)
(***************************************************************************)
\* tokens and topics of any matrix of the model
AnyTokens == {"w1", "w2", "w3"}

AnyTopics == {"t1", "t2", "t3", "t4"}

\* a MergeModel call over two sources that both exist has returned
MergedTwo ==
  /\ ex.op = "MergeModel"
  /\ Len(ex.args.nwt_source_name) = 2
  /\ Len(ex.args.source_weight) = 2
  /\ \A i \in 1..2 : HasModel(ex.pre_registry, ex.args.nwt_source_name[i])

\* C7 (Merge linearity): after Merge(T, [A, B], [a, b]) over two existing
\* sources the matrix registered under T holds, for every token and every
\* topic of T, a*A + b*B computed from the sources as they were before the
\* call, a token or topic missing from a source contributing zero for that
\* source; the tokens of T are the tokens of A and B; this holds also when T
\* names A or B.
C7_MergeLinearity ==
  MergedTwo =>
     LET A == ex.pre_registry[ex.args.nwt_source_name[1]]
         B == ex.pre_registry[ex.args.nwt_source_name[2]]
         a == ex.args.source_weight[1]
         b == ex.args.source_weight[2]
         T == registry[ex.args.nwt_target_name]
     IN /\ pc = "returned"
        /\ HasModel(registry, ex.args.nwt_target_name)
        /\ Range(T.token) = Range(A.token) \cup Range(B.token)
        /\ \A tok \in AnyTokens : \A topic \in Range(T.topic_name) :
             Cell(T, tok, topic) = Mul(a, Cell(A, tok, topic)) + Mul(b, Cell(B, tok, topic))
        /\ \A n \in DOMAIN ex.pre_registry :
             n # ex.args.nwt_target_name =>
               (HasModel(registry, n) /\ registry[n] = ex.pre_registry[n])

\* the target is the second source, the sources differ in tokens and topics
C7_Witness ==
  /\ MergedTwo
  /\ pc = "returned"
  /\ ex.args.nwt_source_name = <<"nwt", "other">>
  /\ ex.args.nwt_target_name = "other"
  /\ ex.args.source_weight = <<3, 2>>
  /\ Cell(registry["other"], "w2", "t2") = Mul(3, 3) + Mul(2, 5)
  /\ Cell(registry["other"], "w3", "t2") = 1

(***************************************************************************)
(* BatchesIterator, StringIndex and the private methods of ArtmExecutor.   *)
(* A ScoreManager holds the batches whose scores it aggregated; an entry   *)
(* of the score tracker is the value RequestScore gave for one score.      *)
(***************************************************************************)
\* lines 736-739: OfflineBatchesIterator::move
OfflineBatchesIterator_move(iter) ==
  [batch_filename |-> iter.batch_filename, batch_weight |-> iter.batch_weight,
   iter |-> iter]

\* mutant: the last update group does not count
more_OneFewer(iter) == iter.current_ + 1 < Len(iter.update_after)

\* line 758: OnlineBatchesIterator::more
more(iter) == iter.current_ < Len(iter.update_after)

\* mutant: every group starts at the first batch
OnlineBatchesIterator_move_FromZero(iter) ==
  IF iter.current_ >= Len(iter.update_after)
  THEN [batch_filename |-> <<>>, batch_weight |-> <<>>, iter |-> iter]
  ELSE [batch_filename |-> SubSeq(iter.batch_filename, 1,
                                  iter.update_after[iter.current_ + 1]),
        batch_weight |-> SubSeq(iter.batch_weight, 1,
                                iter.update_after[iter.current_ + 1]),
        iter |-> [iter EXCEPT !.current_ = @ + 1]]

\* lines 760-775: OnlineBatchesIterator::move: the batches of the current
\* update group, and the iterator moved to the next group
OnlineBatchesIterator_move(iter) ==
  IF iter.current_ >= Len(iter.update_after)
  THEN [batch_filename |-> <<>>, batch_weight |-> <<>>, iter |-> iter]
  ELSE LET first == IF iter.current_ = 0 THEN 0 ELSE iter.update_after[iter.current_]
           last == iter.update_after[iter.current_ + 1]
       IN [batch_filename |-> SubSeq(iter.batch_filename, first + 1, last),
           batch_weight |-> SubSeq(iter.batch_weight, first + 1, last),
           iter |-> [iter EXCEPT !.current_ = @ + 1]]

\* mutant: the weight of the group is read once the iterator has moved
decay_weight_AfterMove(iter, index) ==
  iter.decay_weight[IF index + 2 <= Len(iter.decay_weight) THEN index + 2 ELSE index + 1]

\* lines 777-783: apply_weight(index), decay_weight(index)
apply_weight(iter, index) == iter.apply_weight[index + 1]

decay_weight(iter, index) == iter.decay_weight[index + 1]

\* what the memory past the end of a repeated field of floats may hold, in
\* model units
GarbageWeights == {0, 3}

\* RepeatedField::Get outside the field is undefined behaviour: the checked
\* build stops the process, another build yields whatever the memory holds
OutOfRange ==
  {[abort |-> TRUE, value |-> 0]}
    \cup {[abort |-> FALSE, value |-> v] : v \in GarbageWeights}

\* lines 781-782 as the executor sees them: the outcomes of reading the
\* weight of update index `index`
apply_weight_Get(iter, index) ==
  IF index < Len(iter.apply_weight)
  THEN {[abort |-> FALSE, value |-> apply_weight(iter, index)]}
  ELSE OutOfRange

decay_weight_Get(iter, index) ==
  IF index < Len(iter.decay_weight)
  THEN {[abort |-> FALSE, value |-> decay_weight(iter, index)]}
  ELSE OutOfRange

\* line 785
reset(iter) == [iter EXCEPT !.current_ = 0]

\* line 801: StringIndex::operator std::string
StringIndex(prefix, i) == prefix \o ToString(i)

\* lines 937-939 and 952-955: process_batches_args_ of the executor after
\* the iterator moved its batches into it
\* ScoreManager::RequestScore: the value of a score over what the manager
\* has aggregated
RequestScore(score_manager, score_name) ==
  [name |-> score_name, batches |-> score_manager]

\* mutant: the scores are taken from the score manager of the Instance
StoreScores_FromInstance(cfg, tracker, score_manager) ==
  tracker \o [i \in 1..Len(cfg.score_config) |-> RequestScore({}, cfg.score_config[i])]

\* lines 995-1001: one ScoreData is added to the tracker for every
\* configured score and filled from the score manager
StoreScores(cfg, tracker, score_manager) ==
  tracker \o [i \in 1..Len(cfg.score_config) |->
                RequestScore(score_manager, cfg.score_config[i])]

\* mutant: a ProcessBatchesArgs that was not given a theta_matrix_type asks
\* for the Instance cache
DefaultThetaMatrixType_Cache == "Cache"

\* the theta_matrix_type of the ProcessBatchesArgs the executor keeps
\* (process_batches_args_) while nothing has set it: lines 936-949 never set
\* the field, lines 951-954 set it to None
DefaultThetaMatrixType == "None"

ExecutorArgs(pwt, nwt, moved, theta) ==
  ProcessBatchesArgs(pwt, TRUE, nwt, moved.batch_filename, <<>>, moved.batch_weight, theta)

\* lines 975-983: ArtmExecutor::Regularize
Regularize(pwt, nwt, rwt, cfg, reg) ==
  IF Len(cfg.regularizer_config) > 0
  THEN RegularizeModel(
         RegularizeModelArgs(TRUE, pwt, TRUE, nwt, TRUE, rwt, cfg.regularizer_config), reg)
  ELSE Returned(reg)

\* lines 985-993: ArtmExecutor::Normalize
Normalize(pwt, nwt, rwt, cfg, reg) ==
  NormalizeModel(
    NormalizeModelArgs(TRUE, pwt, TRUE, nwt, Len(cfg.regularizer_config) > 0, rwt), reg)

\* lines 1003-1012: ArtmExecutor::Merge
Merge(nwt, decay, nwt_hat, apply, reg) ==
  MergeModel(MergeModelArgs(<<nwt, nwt_hat>>, <<decay, apply>>, nwt, <<>>), reg)

\* mutant: Dispose removes nothing
Dispose_Nothing(model_name, reg) == reg

\* lines 1014-1017: ArtmExecutor::Dispose
Dispose(model_name, reg) == DisposeModel(reg, model_name)

\* mutant: Await returns at once
Await_NoWait(async_, operation_id, managers) == TRUE

\* lines 969-973: ArtmExecutor::Await leaves its loop
Await(async_, operation_id, managers) ==
  IsEverythingProcessed(managers[async_[operation_id + 1]])

\* mutant: one more pass
OfflineMore_OneMore(pass, passes) == pass <= passes

\* line 845: the loop condition of ExecuteOfflineAlgorithm
OfflineMore(pass, passes) == pass < passes

\* mutant: the weights of the first update group are read for every merge
AsyncWeightIndex_First(op_id) == 0

\* lines 905-906: the index the async schedule reads its merge weights at
AsyncWeightIndex(op_id) == op_id

\* mutant: the target of the operation launched last is merged
AsyncMergedName_Current(nwt_hat_index) == StringIndex("nwt_hat", nwt_hat_index)

\* lines 911-912: nwt_hat_index - 1, the name merged and disposed
AsyncMergedName(nwt_hat_index) == StringIndex("nwt_hat", nwt_hat_index - 1)

\* mutant: every step normalizes into the configured Phi
NextPwtActive_InPlace(is_last, pwt_name, pwt_index) == pwt_name

\* line 915: the Phi the async schedule normalizes into
NextPwtActive(is_last, pwt_name, pwt_index) ==
  IF is_last THEN pwt_name ELSE StringIndex("pwt", pwt_index + 1)

(***************************************************************************)
(* History of a fit.                                                       *)
(***************************************************************************)
PtrTo(reg, name) == IF HasModel(reg, name) THEN <<reg[name]>> ELSE Null

\* a launched ProcessBatches operation: its names, its batch manager, the
\* update group it moved, and the Phi under its source name at the launch
OpRecord(args, group, batch_manager, reg) ==
  [source |-> args.pwt_source_name, target |-> args.nwt_target_name,
   batch_manager |-> batch_manager, batch_filename |-> args.batch_filename,
   batch_weight |-> args.batch_weight, group |-> group,
   theta_matrix_type |-> args.theta_matrix_type,
   phi |-> PtrTo(reg, args.pwt_source_name)]

\* a merge: the operation it consumes, what it read and what it left
MergeRecord(op, nwt, nwt_hat, decay, apply, reg, result) ==
  [op |-> op, nwt_hat_name |-> nwt_hat, decay |-> decay, apply |-> apply,
   before |-> PtrTo(reg, nwt), nwt_hat |-> PtrTo(reg, nwt_hat),
   after |-> PtrTo(result.registry, nwt)]

\* the history with one more call of the executor: the private method
\* called and the matrix it writes or removes
Logged(h, call, name) ==
  [h EXCEPT !.steps = Append(@, [call |-> call, name |-> name])]

AfterMerge(h, op, nwt, nwt_hat, decay, apply, reg, result) ==
  IF result.error # "" THEN h
  ELSE [h EXCEPT !.merges = Append(@, MergeRecord(op, nwt, nwt_hat, decay, apply, reg, result))]

AfterNormalize(h, pwt, nwt, result) ==
  IF result.error # "" THEN h
  ELSE [h EXCEPT !.trajectory =
          Append(@, [nwt |-> result.registry[nwt], pwt |-> result.registry[pwt]])]

(***************************************************************************)
(* Steps of the executor.                                                  *)
(***************************************************************************)
\* ArtmExecutor::ProcessBatches and AsyncProcessBatches up to the first
\* enqueue, on a new BatchManager
ExecutorProcessBatches(args, async, score_manager, group, at) ==
  /\ CallProcessBatchesImpl(args, async, score_manager, FALSE, at, "thrown")
  /\ hist' = IF ValidateProcessBatches(args, async, registry, config) = ""
             THEN Logged([hist EXCEPT !.ops = Append(@, OpRecord(args, group,
                                                       NewBatchManager, registry))],
                         "ProcessBatches", args.nwt_target_name)
             ELSE hist
  /\ UNCHANGED <<processor_queue, worker, next_task_id>>

\* a synchronous RequestProcessBatchesImpl returned to the executor
ProcessBatchesReturned(at, to) ==
  /\ pc = at
  /\ pb.pc = "returned"
  /\ pb' = NoPb
  /\ pc' = to
  /\ UNCHANGED <<config, score_cache, score_tracker, local_score_manager, file_system, external, bad_batches, registry, queue_vars, cache_manager,
                 local_cache, ex, last_error, calls, hist>>

\* a call of MergeModel, RegularizeModel, NormalizeModel or DisposeModel
Algebra(at, result, to) ==
  /\ pc = at
  /\ registry' = result.registry
  /\ last_error' = result.error
  /\ pc' = IF result.error = "" THEN to ELSE "thrown"
  /\ UNCHANGED <<config, score_cache, score_tracker, local_score_manager, file_system, external, bad_batches, queue_vars, cache_manager, local_cache, pb, calls>>

\* a fit starts: one fit in a behaviour
StartFit ==
  /\ pc = "idle"
  /\ calls = 0
  /\ calls' = calls + 1

(***************************************************************************)
(* MasterComponent::FitOffline and ExecuteOfflineAlgorithm.                *)
(***************************************************************************)
FitOfflineMasterModelArgs(batch_filename, batch_weight, passes) ==
  [batch_filename |-> batch_filename, batch_weight |-> batch_weight, passes |-> passes]

\* lines 1036-1068: no batch_filename, no batch_folder and no in-memory batch
\* is an InvalidOperation
FitOffline(args) ==
  /\ StartFit
  /\ LET ex0 == [NoEx EXCEPT !.op = "FitOffline", !.args = args,
                             !.pre_registry = registry,
                             !.pre_score_tracker = score_tracker]
     IN IF args.batch_filename = <<>>
        THEN /\ pc' = "thrown"
             /\ last_error' = "InvalidOperation:NoBatches"
             /\ ex' = ex0
             /\ UNCHANGED score_cache
        ELSE /\ pc' = "Offline_Loop"
             /\ last_error' = ""
             /\ ex' = [ex0 EXCEPT !.passes = args.passes,
                                  !.iter = BatchesIterator(args.batch_filename,
                                             args.batch_weight, <<>>, <<>>, <<>>)]
             /\ score_cache' = {}
  /\ UNCHANGED <<config, score_tracker, local_score_manager, file_system, external,
                 bad_batches, registry, queue_vars, cache_manager, local_cache, pb, hist>>

\* lines 845-847 and 853: the head of the loop, the ScoreManager and the
\* ProcessBatches of the pass, or the Dispose after the last pass
Offline_Loop ==
  /\ pc = "Offline_Loop"
  /\ IF OfflineMore(ex.pass, ex.passes)
     THEN ExecutorProcessBatches(
            ExecutorArgs(config.pwt_name, config.nwt_name,
                         OfflineBatchesIterator_move(ex.iter), DefaultThetaMatrixType),
            FALSE, "local", ex.pass, "Offline_ProcessBatches")
          /\ local_score_manager' = {}
     ELSE /\ registry' = Dispose("rwt", registry)
          /\ pc' = "returned"
          /\ hist' = Logged(hist, "Dispose", "rwt")
          /\ UNCHANGED <<queue_vars, last_error, pb, local_score_manager>>
  /\ UNCHANGED <<config, score_cache, score_tracker, file_system, external, bad_batches,
                 cache_manager, local_cache, ex, calls>>

Offline_ProcessBatches ==
  ProcessBatchesReturned("Offline_ProcessBatches", "Offline_Regularize")

\* line 848
Offline_Regularize ==
  /\ Algebra("Offline_Regularize",
             Regularize(config.pwt_name, config.nwt_name, "rwt", config, registry),
             "Offline_Normalize")
  /\ hist' = Logged(hist, "Regularize", "rwt")
  /\ UNCHANGED ex

\* line 849
Offline_Normalize ==
  LET result == Normalize(config.pwt_name, config.nwt_name, "rwt", config, registry)
  IN /\ Algebra("Offline_Normalize", result, "Offline_StoreScores")
     /\ hist' = Logged(AfterNormalize(hist, config.pwt_name, config.nwt_name, result),
                       "Normalize", config.pwt_name)
     /\ UNCHANGED ex

\* a StoreScores call of the executor, and the end of the loop body
ExecutorStoreScores(at, to) ==
  /\ pc = at
  /\ pc' = to
  /\ score_tracker' = StoreScores(config, score_tracker, local_score_manager)
  /\ hist' = Logged(hist, "StoreScores", "")
  /\ UNCHANGED <<config, score_cache, local_score_manager, file_system, external,
                 bad_batches, registry, queue_vars, cache_manager, local_cache, pb,
                 last_error, calls>>

\* line 850 and the end of the pass
Offline_StoreScores ==
  /\ ExecutorStoreScores("Offline_StoreScores", "Offline_Loop")
  /\ ex' = [ex EXCEPT !.pass = @ + 1]

(***************************************************************************)
(* MasterComponent::FitOnline, ExecuteOnlineAlgorithm and                  *)
(* ExecuteAsyncOnlineAlgorithm.                                            *)
(***************************************************************************)
FitOnlineMasterModelArgs(batch_filename, batch_weight, update_after, apply, decay, async) ==
  [batch_filename |-> batch_filename, batch_weight |-> batch_weight,
   update_after |-> update_after, apply_weight |-> apply, decay_weight |-> decay,
   async |-> async]

\* lines 1020-1034, then lines 857-860 or lines 893-899 (ClearScoreCache and,
\* in the asynchronous fit, the first launch)
FitOnline(args) ==
  /\ StartFit
  /\ LET iter == BatchesIterator(args.batch_filename, args.batch_weight,
                                 args.update_after, args.apply_weight, args.decay_weight)
         ex0 == [NoEx EXCEPT !.op = "FitOnline", !.args = args, !.async = args.async,
                             !.pre_registry = registry,
                             !.pre_score_tracker = score_tracker, !.iter = iter,
                             !.pwt_active = config.pwt_name]
         moved == OnlineBatchesIterator_move(iter)
     IN IF args.async
        THEN /\ ExecutorProcessBatches(
                  ExecutorArgs(config.pwt_name, StringIndex("nwt_hat", 0), moved, "None"),
                  TRUE, "null", iter.current_, "Async_Loop")
             /\ ex' = [ex0 EXCEPT !.iter = moved.iter, !.op_id = 0,
                                  !.async_ = <<NewBatchManager>>]
        ELSE /\ pc' = "Online_Loop"
             /\ last_error' = ""
             /\ ex' = ex0
             /\ UNCHANGED <<registry, queue_vars, pb, hist>>
  /\ score_cache' = {}
  /\ UNCHANGED <<config, score_tracker, local_score_manager, file_system, external,
                 bad_batches, cache_manager, local_cache>>

\* lines 861-866 and 876: the head of the loop, the weights of the group, its
\* ScoreManager and its ProcessBatches, or the reset of the iterator after
\* the last group
Online_Loop ==
  /\ pc = "Online_Loop"
  /\ IF more(ex.iter)
     THEN LET moved == OnlineBatchesIterator_move(ex.iter)
          IN /\ ExecutorProcessBatches(
                  ExecutorArgs(config.pwt_name, StringIndex("nwt_hat", ex.nwt_hat_index),
                               moved, DefaultThetaMatrixType),
                  FALSE, "local", ex.iter.current_, "Online_ProcessBatches")
             /\ ex' = [ex EXCEPT !.apply_weight = apply_weight(ex.iter, ex.iter.current_),
                                 !.decay_weight = decay_weight(ex.iter, ex.iter.current_),
                                 !.weight_reads = @ \cup {ex.iter.current_},
                                 !.iter = moved.iter]
             /\ local_score_manager' = {}
     ELSE /\ pc' = "returned"
          /\ ex' = [ex EXCEPT !.iter = reset(@)]
          /\ UNCHANGED <<registry, queue_vars, last_error, pb, hist, local_score_manager>>
  /\ UNCHANGED <<config, score_cache, score_tracker, file_system, external, bad_batches,
                 cache_manager, local_cache, calls>>

Online_ProcessBatches ==
  ProcessBatchesReturned("Online_ProcessBatches", "Online_Merge")

\* line 867
Online_Merge ==
  LET nwt_hat == StringIndex("nwt_hat", ex.nwt_hat_index)
      result == Merge(config.nwt_name, ex.decay_weight, nwt_hat, ex.apply_weight, registry)
  IN /\ Algebra("Online_Merge", result, "Online_Dispose")
     /\ hist' = Logged(AfterMerge(hist, Len(hist.ops) - 1, config.nwt_name, nwt_hat,
                                  ex.decay_weight, ex.apply_weight, registry, result),
                       "Merge", nwt_hat)
     /\ UNCHANGED ex

\* line 868
Online_Dispose ==
  /\ Algebra("Online_Dispose",
             Returned(Dispose(StringIndex("nwt_hat", ex.nwt_hat_index), registry)),
             "Online_Regularize")
  /\ hist' = Logged(hist, "Dispose", StringIndex("nwt_hat", ex.nwt_hat_index))
  /\ UNCHANGED ex

\* line 869
Online_Regularize ==
  /\ Algebra("Online_Regularize",
             Regularize(config.pwt_name, config.nwt_name, "rwt", config, registry),
             "Online_Normalize")
  /\ hist' = Logged(hist, "Regularize", "rwt")
  /\ UNCHANGED ex

\* line 870
Online_Normalize ==
  LET result == Normalize(config.pwt_name, config.nwt_name, "rwt", config, registry)
  IN /\ Algebra("Online_Normalize", result, "Online_StoreScores")
     /\ hist' = Logged(AfterNormalize(hist, config.pwt_name, config.nwt_name, result),
                       "Normalize", config.pwt_name)
     /\ UNCHANGED ex

\* lines 871-873
Online_StoreScores ==
  /\ ExecutorStoreScores("Online_StoreScores", "Online_Loop")
  /\ ex' = [ex EXCEPT !.nwt_hat_index = @ + 1]

\* lines 902-909: the head of the loop: the weights of the operation to
\* await are read, then the next operation is launched unless none is left;
\* a weight read outside the weight lists may stop the process
Async_Loop ==
  /\ pc = "Async_Loop"
  /\ pb.pc \in {"none", "returned"}
  /\ \E apply \in apply_weight_Get(ex.iter, AsyncWeightIndex(ex.op_id)),
        decay \in decay_weight_Get(ex.iter, AsyncWeightIndex(ex.op_id)) :
       LET is_last == ~more(ex.iter)
           nwt_hat_index == ex.nwt_hat_index + 1
           moved == OnlineBatchesIterator_move(ex.iter)
           ex1 == [ex EXCEPT !.is_last = is_last,
                             !.pwt_index = @ + 1,
                             !.nwt_hat_index = nwt_hat_index,
                             !.apply_weight = apply.value,
                             !.decay_weight = decay.value,
                             !.weight_reads = @ \cup {AsyncWeightIndex(ex.op_id)},
                             !.temp_op_id = ex.op_id]
       IN IF apply.abort \/ decay.abort
          THEN /\ pc' = "aborted"
               /\ ex' = [ex1 EXCEPT !.apply_weight = 0, !.decay_weight = 0]
               /\ UNCHANGED <<registry, batch_managers, added, removed, remove_calls,
                              processor_queue, worker, next_task_id, last_error, hist, pb>>
          ELSE IF ~is_last
          THEN /\ ExecutorProcessBatches(
                    ExecutorArgs(ex.pwt_active, StringIndex("nwt_hat", nwt_hat_index),
                                 moved, "None"),
                    TRUE, "null", ex.iter.current_, "Async_Await")
               /\ ex' = [ex1 EXCEPT !.iter = moved.iter, !.op_id = Len(ex.async_),
                                    !.async_ = Append(@, NewBatchManager)]
          ELSE /\ pc' = "Async_Await"
               /\ pb' = NoPb
               /\ ex' = ex1
               /\ UNCHANGED <<registry, batch_managers, added, removed, remove_calls,
                              processor_queue, worker, next_task_id, last_error, hist>>
  /\ UNCHANGED <<config, score_cache, score_tracker, local_score_manager, file_system, external, bad_batches, cache_manager, local_cache, calls>>

\* line 910: the launch, if any, has returned and Await leaves its loop
Async_Await ==
  /\ pc = "Async_Await"
  /\ pb.pc \in {"none", "returned"}
  /\ Await(ex.async_, ex.temp_op_id, batch_managers)
  /\ pc' = "Async_Merge"
  /\ pb' = NoPb
  /\ hist' = Logged([hist EXCEPT !.awaited = @ \cup {ex.temp_op_id}],
                    "Await", hist.ops[ex.temp_op_id + 1].target)
  /\ UNCHANGED <<config, score_cache, score_tracker, local_score_manager, file_system, external, bad_batches, registry, queue_vars, cache_manager,
                 local_cache, ex, last_error, calls>>

\* line 911
Async_Merge ==
  LET nwt_hat == AsyncMergedName(ex.nwt_hat_index)
      result == Merge(config.nwt_name, ex.decay_weight, nwt_hat, ex.apply_weight, registry)
  IN /\ Algebra("Async_Merge", result, "Async_Dispose")
     /\ hist' = Logged(AfterMerge(hist, ex.temp_op_id, config.nwt_name, nwt_hat,
                                  ex.decay_weight, ex.apply_weight, registry, result),
                       "Merge", nwt_hat)
     /\ UNCHANGED ex

\* line 912
Async_Dispose ==
  /\ Algebra("Async_Dispose",
             Returned(Dispose(AsyncMergedName(ex.nwt_hat_index), registry)),
             "Async_Regularize")
  /\ hist' = Logged(hist, "Dispose", AsyncMergedName(ex.nwt_hat_index))
  /\ UNCHANGED ex

\* line 913
Async_Regularize ==
  /\ Algebra("Async_Regularize",
             Regularize(ex.pwt_active, config.nwt_name, "rwt", config, registry),
             "Async_Normalize")
  /\ hist' = Logged(hist, "Regularize", "rwt")
  /\ UNCHANGED ex

\* lines 915-916
Async_Normalize ==
  LET pwt_active == NextPwtActive(ex.is_last, config.pwt_name, ex.pwt_index)
      result == Normalize(pwt_active, config.nwt_name, "rwt", config, registry)
  IN /\ Algebra("Async_Normalize", result, "Async_DisposePwt")
     /\ ex' = [ex EXCEPT !.pwt_active = pwt_active]
     /\ hist' = Logged(AfterNormalize(hist, pwt_active, config.nwt_name, result),
                       "Normalize", pwt_active)

\* mutant: the last step disposes pwt_index - 1 only
Async_DisposePwt_NoLast ==
  /\ Algebra("Async_DisposePwt",
             Returned(Dispose(StringIndex("pwt", ex.pwt_index - 1), registry)),
             IF ex.is_last THEN "returned" ELSE "Async_Loop")
  /\ ex' = IF ex.is_last THEN [ex EXCEPT !.iter = reset(@)] ELSE ex
  /\ hist' = Logged(hist, "Dispose", StringIndex("pwt", ex.pwt_index - 1))

\* lines 918-923
Async_DisposePwt ==
  LET reg1 == Dispose(StringIndex("pwt", ex.pwt_index - 1), registry)
      reg2 == IF ex.is_last THEN Dispose(StringIndex("pwt", ex.pwt_index), reg1) ELSE reg1
      log1 == Logged(hist, "Dispose", StringIndex("pwt", ex.pwt_index - 1))
  IN /\ Algebra("Async_DisposePwt", Returned(reg2),
                IF ex.is_last THEN "returned" ELSE "Async_Loop")
     /\ ex' = IF ex.is_last THEN [ex EXCEPT !.iter = reset(@)] ELSE ex
     /\ hist' = IF ex.is_last
                THEN Logged(log1, "Dispose", StringIndex("pwt", ex.pwt_index))
                ELSE log1

(***************************************************************************)
(* The fits: SpecFit.                                                      *)
(***************************************************************************)
BatchList == <<"b1", "b2", "b3", "b4">>

FitOfflineArgs ==
  {FitOfflineMasterModelArgs(<<"b1", "b2">>, <<1, 2>>, passes) : passes \in 0..MaxPasses}
  \cup {FitOfflineMasterModelArgs(<<>>, <<>>, 1)}

\* an online iterator with g update groups; with two groups it is
\* update_after = [2, 4], apply_weight = [0.5, 0.5], decay_weight = [0.5, 1.0]
OnlineIterator(g, async) ==
  IF g = 2
  THEN FitOnlineMasterModelArgs(BatchList, <<1, 1, 1, 1>>, <<2, 4>>, <<1, 1>>, <<1, 2>>, async)
  ELSE FitOnlineMasterModelArgs(SubSeq(BatchList, 1, g), [i \in 1..g |-> 1],
                                [i \in 1..g |-> i],
                                [i \in 1..g |-> 1 + (i % 2)],
                                [i \in 1..g |-> 2 + (i % 2)], async)

FitOnlineArgs == {OnlineIterator(g, async) : g \in 1..MaxGroups, async \in BOOLEAN}

\* a registry after InitializeModel
FreshRegistry(pwt_name) == [n \in {pwt_name} |-> InitialPhi]

\* a registry after an earlier fit that kept its rwt
PriorRegistry(pwt_name) ==
  [n \in {pwt_name, "nwt", "rwt"} |->
     CASE n = pwt_name -> InitialPhi [] n = "nwt" -> InitialNwt [] OTHER -> InitialNwt]

\* the scores configured: none, or two
ScoreConfigs == {<<>>, <<"s1", "s2">>}

\* the tracker after an earlier fit
PriorScoreTracker == <<RequestScore({"b1"}, "s1")>>

InitFit ==
  /\ InitCommon
  /\ file_system = <<>>
  /\ config \in {[MasterModelConfig(t, c, r) EXCEPT !.score_config = s] :
                    t \in 0..MaxThreads, c \in BOOLEAN, r \in {<<>>, <<1>>},
                    s \in ScoreConfigs}
  /\ \/ registry = FreshRegistry("pwt") /\ score_tracker = <<>>
     \/ registry = PriorRegistry("pwt") /\ score_tracker = PriorScoreTracker

NextFit ==
  \/ \E args \in FitOfflineArgs : FitOffline(args)
  \/ \E args \in FitOnlineArgs : FitOnline(args)
  \/ Offline_Loop
  \/ Offline_ProcessBatches
  \/ Offline_Regularize
  \/ Offline_Normalize
  \/ Offline_StoreScores
  \/ Online_Loop
  \/ Online_ProcessBatches
  \/ Online_Merge
  \/ Online_Dispose
  \/ Online_Regularize
  \/ Online_Normalize
  \/ Online_StoreScores
  \/ Async_Loop
  \/ Async_Await
  \/ Async_Merge
  \/ Async_Dispose
  \/ Async_Regularize
  \/ Async_Normalize
  \/ Async_DisposePwt
  \/ PB_Enqueue
  \/ PB_Push
  \/ PB_Drained
  \/ WorkerStep
  \/ Api_Return
  \/ Api_Thrown

SpecFit == InitFit /\ [][NextFit]_vars

(***************************************************************************)
(* The sequential effect of the calls, as functions of the registry.       *)
(***************************************************************************)
\* the k-th ProcessorInput of a call (k from 0)
InputOf(args, k) == CreateProcessorInput([NoPb EXCEPT !.args = args, !.batch_index = k], 0)

\* the tasks of a call processed one after the other, from the k-th on
RECURSIVE ProcessFrom(_, _, _, _)
ProcessFrom(args, reg, bad, k) ==
  IF k >= BatchCountOf(args) THEN reg
  ELSE ProcessFrom(args, RegistryAfterTask(InputOf(args, k), reg, bad), bad, k + 1)

\* a ProcessBatches call that passes its validation, run with nothing else
\* running: the target is installed, then every task deposits its increments
ProcessBatchesResult(args, reg, cfg, bad) ==
  ProcessFrom(args, RegistryAfterValidation(args, reg, cfg), bad, 0)

\* the batches and the weights of update group g (from 0) of an iterator
GroupFirst(args, g) == IF g = 0 THEN 0 ELSE args.update_after[g]

GroupBatches(args, g) ==
  SubSeq(args.batch_filename, GroupFirst(args, g) + 1, args.update_after[g + 1])

GroupWeights(args, g) ==
  SubSeq(args.batch_weight, GroupFirst(args, g) + 1, args.update_after[g + 1])

\* ExecuteOnlineAlgorithm run with nothing else running: nwt and Phi after
\* every step, from update group k on
RECURSIVE OnlineFrom(_, _, _, _, _)
OnlineFrom(args, k, reg, cfg, bad) ==
  IF k >= Len(args.update_after) THEN <<>>
  ELSE LET nwt_hat == StringIndex("nwt_hat", k)
           r1 == ProcessBatchesResult(
                   ProcessBatchesArgs(cfg.pwt_name, TRUE, nwt_hat, GroupBatches(args, k),
                                      <<>>, GroupWeights(args, k),
                                      DefaultThetaMatrixType),
                   reg, cfg, bad)
           r2 == Merge(cfg.nwt_name, args.decay_weight[k + 1], nwt_hat,
                       args.apply_weight[k + 1], r1).registry
           r3 == Dispose(nwt_hat, r2)
           r4 == Regularize(cfg.pwt_name, cfg.nwt_name, "rwt", cfg, r3).registry
           r5 == Normalize(cfg.pwt_name, cfg.nwt_name, "rwt", cfg, r4).registry
       IN <<[nwt |-> r5[cfg.nwt_name], pwt |-> r5[cfg.pwt_name]]>>
            \o OnlineFrom(args, k + 1, r5, cfg, bad)

OnlineSyncTrajectory(args, reg, cfg, bad) == OnlineFrom(args, 0, reg, cfg, bad)

\* k iterations of the API calls ProcessBatches(pwt -> nwt, all batches),
\* RegularizeModel(pwt, nwt, rwt), NormalizeModel(pwt, nwt, rwt)
RECURSIVE SingleSteps(_, _, _, _, _)
SingleSteps(args, k, reg, cfg, bad) ==
  IF k = 0 THEN reg
  ELSE LET r0 == SingleSteps(args, k - 1, reg, cfg, bad)
           r1 == ProcessBatchesResult(
                   ProcessBatchesArgs(cfg.pwt_name, TRUE, cfg.nwt_name, args.batch_filename,
                                      <<>>, args.batch_weight, "None"),
                   r0, cfg, bad)
           r2 == RegularizeModel(
                   RegularizeModelArgs(TRUE, cfg.pwt_name, TRUE, cfg.nwt_name, TRUE, "rwt",
                                       cfg.regularizer_config), r1).registry
       IN NormalizeModel(
            NormalizeModelArgs(TRUE, cfg.pwt_name, TRUE, cfg.nwt_name, TRUE, "rwt"),
            r2).registry

\* the iterations followed by DisposeModel(rwt)
IteratedSingleStep(args, reg, cfg, bad) ==
  DisposeModel(SingleSteps(args, args.passes, reg, cfg, bad), "rwt")

\* what the workers of an operation deposit into its target, computed from
\* the Phi that was under its source name when it was launched
ExpectedN(op, cfg, bad) ==
  ProcessBatchesResult(
    ProcessBatchesArgs(op.source, TRUE, op.target, op.batch_filename, <<>>,
                       op.batch_weight, "None"),
    [n \in {op.source} |-> op.phi[1]], cfg, bad)[op.target]

(***************************************************************************)
(* Properties of the fits, checked under SpecFit.                          *)
(***************************************************************************)
InAsyncFit == ex.op = "FitOnline" /\ ex.async

InSyncFit == ex.op = "FitOnline" /\ ~ex.async

\* every task of the operation was registered, processed and removed
OpDrained(op) ==
  /\ batch_managers[op.batch_manager] = {}
  /\ removed[op.batch_manager] = added[op.batch_manager]
  /\ Cardinality(added[op.batch_manager]) = Len(op.batch_filename)
  /\ \A i \in 1..Len(processor_queue) : processor_queue[i].batch_manager # op.batch_manager
  /\ \A w \in 1..MaxThreads : worker[w].pi.batch_manager # op.batch_manager

\* the operation has tasks that were not removed yet
Outstanding(op) == batch_managers[op.batch_manager] # {}

\* the steps of the schedules that run after the ProcessBatches of an
\* operation and consume its N target
SyncConsumingPcs ==
  {"Offline_Regularize", "Offline_Normalize", "Online_Merge", "Online_Dispose",
   "Online_Regularize", "Online_Normalize"}

AsyncConsumingPcs ==
  {"Async_Merge", "Async_Dispose", "Async_Regularize", "Async_Normalize",
   "Async_DisposePwt"}

\* C2 (happens-before): in the three schedules the Merge, Regularize and
\* Normalize that consume the N target of an operation are reached only when
\* every task of that operation was removed from its batch manager; in the
\* async schedule the name merged after Await(K) is the nwt_hat target that
\* operation K was launched with, and operation K was awaited.
C2_HappensBefore ==
  /\ pc \in SyncConsumingPcs =>
       (Len(hist.ops) >= 1 /\ OpDrained(hist.ops[Len(hist.ops)]))
  /\ pc \in AsyncConsumingPcs =>
       /\ OpDrained(hist.ops[ex.temp_op_id + 1])
       /\ ex.temp_op_id \in hist.awaited
       /\ AsyncMergedName(ex.nwt_hat_index) = hist.ops[ex.temp_op_id + 1].target
  /\ \A k \in 1..Len(hist.merges) :
       /\ hist.merges[k].op = k - 1
       /\ hist.merges[k].nwt_hat_name = hist.ops[k].target
       /\ hist.merges[k].nwt_hat # Null

\* the merge of operation 1 is reached while operation 2 has its two tasks
\* outstanding
C2_Witness ==
  /\ InAsyncFit
  /\ pc = "Async_Merge"
  /\ ex.temp_op_id = 1
  /\ Len(hist.ops) = 3
  /\ Outstanding(hist.ops[3])
  /\ config.threads = 2

\* the registry entry of a name is not what it was
Touched(n) ==
  \/ HasModel(registry, n) # HasModel(registry', n)
  \/ (HasModel(registry, n) /\ HasModel(registry', n) /\ registry[n] # registry'[n])

\* a step of the orchestrator between Await and the next launch
AsyncAlgebraStep == InAsyncFit /\ pc \in AsyncConsumingPcs /\ pc' # pc

\* C3: in FitOnlineAsync no Merge, Regularize, Normalize or Dispose step of
\* the orchestrator changes or removes the registry entry of a name that an
\* operation with outstanding tasks reads (its source) or writes (its
\* target), the name a Normalize step writes is neither of them, and a name
\* is removed only when every operation launched against it was awaited.
C3_Disjoint ==
  [][AsyncAlgebraStep =>
       \A k \in 1..Len(hist.ops) :
         /\ Outstanding(hist.ops[k]) =>
              /\ ~Touched(hist.ops[k].source)
              /\ ~Touched(hist.ops[k].target)
              /\ pc = "Async_Normalize" =>
                   NextPwtActive(ex.is_last, config.pwt_name, ex.pwt_index)
                     \notin {hist.ops[k].source, hist.ops[k].target}
         /\ (HasModel(registry, hist.ops[k].source)
               /\ ~HasModel(registry', hist.ops[k].source)) => (k - 1) \in hist.awaited]_vars

\* step 1 was normalized into pwt3 while operation 2, which reads pwt2 and
\* writes nwt_hat2, has its tasks outstanding
C3_Witness ==
  /\ InAsyncFit
  /\ pc = "Async_DisposePwt"
  /\ ex.temp_op_id = 1
  /\ Len(hist.ops) = 3
  /\ Outstanding(hist.ops[3])
  /\ hist.ops[3].source = "pwt2"
  /\ hist.ops[3].target = "nwt_hat2"
  /\ HasModel(registry, "pwt2")
  /\ HasModel(registry, "pwt3")

\* C4: in FitOnlineAsync the k-th launched operation has operation id k
\* (from 0), moves update group k and its batches, and the k-th merge awaits
\* that operation and leaves nwt = decay_weight[k] * nwt_before +
\* apply_weight[k] * N(batches of group k), a missing nwt counting as zero.
C4_GroupAlignment ==
  InAsyncFit =>
    /\ \A k \in 1..Len(hist.ops) :
         /\ hist.ops[k].group = k - 1
         /\ hist.ops[k].batch_manager = ex.async_[k]
         /\ hist.ops[k].batch_filename = GroupBatches(ex.args, k - 1)
         /\ hist.ops[k].target = StringIndex("nwt_hat", k - 1)
    /\ \A k \in 1..Len(hist.merges) :
         LET m == hist.merges[k]
             N == ExpectedN(hist.ops[k], config, bad_batches)
         IN /\ m.op = k - 1
            /\ m.decay = ex.args.decay_weight[k]
            /\ m.apply = ex.args.apply_weight[k]
            /\ m.nwt_hat = <<N>>
            /\ \A tok \in AnyTokens : \A topic \in AnyTopics :
                 Cell(m.after[1], tok, topic) =
                   Mul(m.decay, IF m.before = Null THEN 0 ELSE Cell(m.before[1], tok, topic))
                     + Mul(m.apply, Cell(N, tok, topic))

\* update_after = [2, 4], apply = [0.5, 0.5], decay = [0.5, 1.0], no prior
\* nwt: 0.5 * N(b1 + b2) after step 1, then 1.0 * that + 0.5 * N(b3 + b4)
C4_Witness ==
  /\ InAsyncFit
  /\ ex.args.update_after = <<2, 4>>
  /\ ~HasModel(ex.pre_registry, "nwt")
  /\ bad_batches = {}
  /\ Len(hist.merges) = 2
  /\ hist.ops[1].batch_filename = <<"b1", "b2">>
  /\ hist.ops[2].batch_filename = <<"b3", "b4">>
  /\ Cell(hist.merges[1].nwt_hat[1], "w1", "t1") = 27
  /\ Cell(hist.merges[1].after[1], "w1", "t1") = 13
  /\ Cell(hist.merges[2].after[1], "w1", "t1")
       = 13 + Mul(1, Cell(hist.merges[2].nwt_hat[1], "w1", "t1"))
  /\ Cell(hist.merges[2].nwt_hat[1], "w1", "t1") > 0

\* one worker thread and no regularizers
OneWorkerNoRegularizers == config.threads = 1 /\ config.regularizer_config = <<>>

\* the trajectory so far is the one of the sync schedule
FollowsSync ==
  LET ref == OnlineSyncTrajectory(ex.args, ex.pre_registry, config, bad_batches)
  IN \A k \in 1..Len(hist.trajectory) : hist.trajectory[k] = ref[k]

\* every operation was launched against the Phi of the step before it
FedLatestPhi ==
  \A k \in 1..Len(hist.ops) :
    hist.ops[k].phi = IF k = 1 THEN PtrTo(ex.pre_registry, config.pwt_name)
                      ELSE <<hist.trajectory[k - 1].pwt>>

\* the statement of C5 as it stands: under one worker thread and no
\* regularizers FitOnlineAsync feeds every update group the Phi that
\* FitOnlineSync feeds it, and has the nwt and Phi of FitOnlineSync after
\* every step.
C5_SyncEqualsAsync ==
  (InAsyncFit /\ OneWorkerNoRegularizers /\ pc = "returned") =>
     (FollowsSync /\ FedLatestPhi)

\* C5, amended: under one worker thread and no regularizers FitOnlineSync
\* feeds update group k the Phi of step k-1; FitOnlineAsync feeds groups 0
\* and 1 the initial Phi and group k >= 2 the Phi of step k-2; the two have
\* the same nwt and Phi after the first step, and the same final Phi when
\* the iterator has one update group.
C5_AsyncLagsOneStep ==
  OneWorkerNoRegularizers =>
    /\ InSyncFit => (FollowsSync /\ FedLatestPhi)
    /\ InAsyncFit =>
         LET ref == OnlineSyncTrajectory(ex.args, ex.pre_registry, config, bad_batches)
         IN /\ Len(hist.trajectory) >= 1 => hist.trajectory[1] = ref[1]
            /\ (pc = "returned" /\ Len(ex.args.update_after) = 1) =>
                 registry[config.pwt_name] = ref[1].pwt
            /\ \A k \in 1..Len(hist.ops) :
                 hist.ops[k].phi = IF k <= 2 THEN PtrTo(ex.pre_registry, config.pwt_name)
                                   ELSE <<hist.trajectory[k - 2].pwt>>

\* an async fit over three groups ended with another second step and another
\* final Phi than the sync schedule
C5_Witness ==
  /\ InAsyncFit /\ OneWorkerNoRegularizers /\ pc = "returned"
  /\ Len(ex.args.update_after) = 3
  /\ LET ref == OnlineSyncTrajectory(ex.args, ex.pre_registry, config, bad_batches)
     IN /\ hist.trajectory[1] = ref[1]
        /\ hist.trajectory[2] # ref[2]
        /\ registry[config.pwt_name] # ref[3].pwt
        /\ hist.ops[2].phi # <<hist.trajectory[1].pwt>>

\* C6: when FitOffline with k passes returns, the registry is the one left
\* by k iterations of {ProcessBatches(pwt -> nwt, all batches);
\* RegularizeModel(pwt, nwt, rwt); NormalizeModel(pwt, nwt, rwt)} followed by
\* DisposeModel(rwt); it ran k passes, each over the whole batch list and
\* each reading the Phi left by the pass before it.
C6_OfflineIterated ==
  ex.op = "FitOffline" =>
    /\ FedLatestPhi
    /\ \A k \in 1..Len(hist.ops) :
         /\ hist.ops[k].batch_filename = ex.args.batch_filename
         /\ hist.ops[k].source = config.pwt_name
         /\ hist.ops[k].target = config.nwt_name
    /\ pc = "returned" =>
         /\ Len(hist.ops) = ex.args.passes
         /\ registry = IteratedSingleStep(ex.args, ex.pre_registry, config, bad_batches)

\* two passes with a regularizer on two workers, each pass moving Phi
C6_Witness ==
  /\ ex.op = "FitOffline" /\ pc = "returned"
  /\ ex.args.passes = 2
  /\ config.threads = 2
  /\ config.regularizer_config # <<>>
  /\ HasModel(ex.pre_registry, "rwt")
  /\ hist.trajectory[1].pwt # InitialPhi
  /\ hist.trajectory[2].pwt # hist.trajectory[1].pwt
  /\ registry["pwt"] = hist.trajectory[2].pwt

(***************************************************************************)
(* ExportModel and ImportModel.  A file is the sequence of its bytes.  A   *)
(* byte of the model is the version char, a decimal digit or minus sign of *)
(* a formatted length, a zero byte, or a byte of a serialized TopicModel:  *)
(* one TopicName byte per topic name, then for every token one Token byte  *)
(* followed by one Weight byte per topic.                                  *)
(***************************************************************************)
Byte(k, n, s) == [k |-> k, n |-> n, s |-> s]

VersionByte(v) == Byte("Version", v, "")

DigitByte(d) == Byte("Digit", d, "")

MinusByte == Byte("Minus", 0, "")

ZeroByte == Byte("Zero", 0, "")

\* line 218: the cells one chunk may hold
MaxChunkCells == 104857600

\* mutant: the formatted length keeps its last digit only
FormatSize_LastDigit(n) == <<DigitByte(n % 10)>>

\* line 238, fout << str.size(): the decimal digits of n, no separator
RECURSIVE FormatSize(_)
FormatSize(n) ==
  IF n < 10 THEN <<DigitByte(n)>>
  ELSE FormatSize(n \div 10) \o <<DigitByte(n % 10)>>

\* RetrieveExternalTopicModel with a token list in GetTopicModelArgs: the
\* rows of the listed tokens, every topic
RetrieveTokens(m, tokens) ==
  [topic_name |-> m.topic_name, token |-> tokens,
   token_weights |-> [i \in 1..Len(tokens) |-> m.data[IndexOf(m.token, tokens[i])]]]

\* TopicModel::SerializeAsString
SerializeAsString(tm) ==
  LET nt == Len(tm.topic_name)
      row(i) == <<Byte("Token", 0, tm.token[i])>> \o
                [j \in 1..nt |-> Byte("Weight", tm.token_weights[i][j], "")]
      rows[i \in 0..Len(tm.token)] == IF i = 0 THEN <<>> ELSE rows[i - 1] \o row(i)
  IN [j \in 1..nt |-> Byte("TopicName", 0, tm.topic_name[j])] \o rows[Len(tm.token)]

\* TopicModel::ParseFromArray: <<>> when the buffer is not a serialized
\* TopicModel, else the message in a one-element sequence
ParseFromArray(buffer) ==
  LET nt == Cardinality({k \in 1..Len(buffer) :
                           \A i \in 1..k : buffer[i].k = "TopicName"})
      rest == SubSeq(buffer, nt + 1, Len(buffer))
      ng == Len(rest) \div (nt + 1)
      ok == /\ Len(rest) % (nt + 1) = 0
            /\ \A i \in 1..Len(rest) :
                 rest[i].k = IF (i - 1) % (nt + 1) = 0 THEN "Token" ELSE "Weight"
  IN IF ~ok THEN <<>>
     ELSE << [topic_name |-> [j \in 1..nt |-> buffer[j].s],
              token |-> [g \in 1..ng |-> rest[(g - 1) * (nt + 1) + 1].s],
              token_weights |-> [g \in 1..ng |->
                                   [j \in 1..nt |-> rest[(g - 1) * (nt + 1) + 1 + j].n]]] >>

\* line 218
TokensPerChunk(token_size, topic_size, cells) ==
  LET fit == cells \div topic_size
  IN IF token_size < fit THEN token_size ELSE fit

\* lines 229-243: the chunks written from token_id on; tokens are the tokens
\* already added to get_topic_model_args
RECURSIVE ExportChunks(_, _, _, _)
ExportChunks(n_wt, tokens_per_chunk, token_id, tokens) ==
  IF token_id >= Len(n_wt.token) THEN <<>>
  ELSE LET added_ == Append(tokens, n_wt.token[token_id + 1])
       IN IF (token_id + 1 = Len(n_wt.token)) \/ (Len(added_) >= tokens_per_chunk)
          THEN LET str == SerializeAsString(RetrieveTokens(n_wt, added_))
               IN FormatSize(Len(str)) \o str \o
                  ExportChunks(n_wt, tokens_per_chunk, token_id + 1, <<>>)
          ELSE ExportChunks(n_wt, tokens_per_chunk, token_id + 1, added_)

\* lines 227-245: the bytes written for n_wt
ExportStream(n_wt, cells) ==
  <<VersionByte(0)>> \o
  ExportChunks(n_wt, TokensPerChunk(Len(n_wt.token), Len(n_wt.topic_name), cells), 0, <<>>)

ExportModelArgs(model_name, file_name) ==
  [model_name |-> model_name, file_name |-> file_name]

WriteFile(fs, name, bytes) ==
  [n \in (DOMAIN fs) \cup {name} |-> IF n = name THEN bytes ELSE fs[n]]

\* paths std::ofstream cannot open: the directory does not exist
NoSuchDirectory == {"nodir/out.bin"}

\* lines 197-248: the exception the call ends with and the files it leaves.
\* The file is created (line 205) before the model is looked up (line 209).
\* Every matrix of the model has a topic, so line 218 divides by a positive
\* number.
ExportModel(args, reg, fs, cells) ==
  IF args.file_name \in DOMAIN fs
    THEN [error |-> "DiskWrite:FileExists", file_system |-> fs]
  ELSE IF args.file_name \in NoSuchDirectory
    THEN [error |-> "DiskWrite:UnableToCreate", file_system |-> fs]
  ELSE IF ~HasModel(reg, args.model_name)
    THEN [error |-> "InvalidOperation:MissingModel",
          file_system |-> WriteFile(fs, args.file_name, <<>>)]
  ELSE IF Len(reg[args.model_name].token) = 0
    THEN [error |-> "InvalidOperation:NoTokens",
          file_system |-> WriteFile(fs, args.file_name, <<>>)]
  ELSE [error |-> "",
        file_system |-> WriteFile(fs, args.file_name,
                                  ExportStream(reg[args.model_name], cells))]

\* value of a run of digit bytes
RECURSIVE DigitsValue(_)
DigitsValue(bytes) ==
  IF bytes = <<>> THEN 0
  ELSE 10 * DigitsValue(SubSeq(bytes, 1, Len(bytes) - 1)) + bytes[Len(bytes)].n

\* lines 271-272, fin >> length at position pos: an optional sign and the
\* digits that follow.  The extraction stops at the first byte that is not
\* a digit; when it runs into the end of the file instead, it sets eofbit,
\* whether or not it read a number.  Without a digit the length is 0.
ReadLength(stream, pos) ==
  LET negative == pos <= Len(stream) /\ stream[pos].k = "Minus"
      first == IF negative THEN pos + 1 ELSE pos
      stop == first + Cardinality({k \in first..Len(stream) :
                                     \A i \in first..k : stream[i].k = "Digit"})
      value == DigitsValue(SubSeq(stream, first, stop - 1))
  IN [length |-> IF negative THEN 0 - value ELSE value,
      eof |-> stop > Len(stream),
      pos |-> stop]

\* line 280, fin.read into a buffer of length zero bytes: a short read
\* leaves the rest of the buffer zero
ReadBuffer(stream, pos, length) ==
  [i \in 1..length |-> IF pos + i - 1 <= Len(stream) THEN stream[pos + i - 1] ELSE ZeroByte]

\* lines 273-274: if (fin.eof()) break
LoopBreaks(r) == r.eof

\* lines 269-291: the loop from position pos; target is Null or <<matrix>>
RECURSIVE ImportChunks(_, _, _)
ImportChunks(stream, pos, target) ==
  LET r == ReadLength(stream, pos)
  IN IF LoopBreaks(r) THEN [error |-> "", target |-> target]
     ELSE IF r.length <= 0 THEN [error |-> "CorruptedMessage", target |-> target]
     ELSE LET topic_model == ParseFromArray(ReadBuffer(stream, r.pos, r.length))
          IN IF topic_model = <<>>
             THEN [error |-> "CorruptedMessage", target |-> target]
             ELSE LET t == IF target = Null
                           THEN DensePhiMatrix(topic_model[1].topic_name)
                           ELSE target[1]
                  IN ImportChunks(stream, r.pos + r.length,
                       <<ApplyTopicModelOperation(topic_model[1], WeightDen, t)>>)

ImportModelArgs(model_name, file_name) ==
  [model_name |-> model_name, file_name |-> file_name]

\* lines 250-301.  version is read by fin >> version (line 261); on an empty
\* file the extraction fails and version keeps the value the stack held,
\* uninit_version.
ImportModel(args, reg, fs, uninit_version) ==
  IF args.file_name \notin DOMAIN fs THEN Thrown("DiskRead:UnableToOpen", reg)
  ELSE LET stream == fs[args.file_name]
           version == IF stream = <<>> THEN uninit_version
                      ELSE IF stream[1].k \in {"Version", "Zero"} THEN stream[1].n
                      ELSE 1
       IN IF version # 0 THEN Thrown("DiskRead:UnsupportedVersion", reg)
          ELSE LET r == IF stream = <<>> THEN [error |-> "", target |-> Null]
                        ELSE ImportChunks(stream, 2, Null)
               IN IF r.error # "" THEN Thrown(r.error, reg)
                  ELSE IF r.target = Null THEN Thrown("CorruptedMessage", reg)
                  ELSE Returned(SetPhiMatrix(reg, args.model_name, r.target[1]))

(***************************************************************************)
(* AttachModel, InitializeModel and OverwriteTopicModel.                   *)
(***************************************************************************)
\* whether the matrix is a PhiMatrixFrame: an owned matrix is, a matrix
\* backed by external memory is not
IsPhiMatrixFrame(m) == ~m.attached

\* mutant: the dynamic_cast of line 309 never yields nullptr
FrameIsNull_Never(m) == FALSE

\* lines 309-310: frame == nullptr
FrameIsNull(m) == ~IsPhiMatrixFrame(m)

\* AttachedPhiMatrix(address_length, address, frame): the tokens, topics and
\* values of the frame, the values now in the caller's memory
AttachedPhiMatrix(frame) == [frame EXCEPT !.attached = TRUE]

\* lines 303-315
AttachModel(args, reg) ==
  IF ~HasModel(reg, args.model_name) THEN Thrown("InvalidOperation:MissingModel", reg)
  ELSE IF FrameIsNull(reg[args.model_name])
    THEN Thrown("InvalidOperation:UnableToAttach", reg)
  ELSE Returned(SetPhiMatrix(reg, args.model_name,
                             AttachedPhiMatrix(reg[args.model_name])))

\* instance_->dictionaries(): the dictionaries of the model
Dictionaries ==
  [d \in {"dict", "empty_dict"} |-> IF d = "dict" THEN <<"w1", "w2", "w3">> ELSE <<>>]

\* Helpers::GenerateRandomVector(topic_size, token, seed): a positive value
\* per topic, fixed by the token and the seed
GenerateRandomVector(topic_size, token_index, seed) ==
  [j \in 1..topic_size |-> 1 + ((seed + token_index + j) % 3)]

InitializeModelArgs(model_name, topic_name, dictionary_name, seed) ==
  [model_name |-> model_name, topic_name |-> topic_name,
   dictionary_name |-> dictionary_name, seed |-> seed]

\* lines 317-354
InitializeModel(args, reg) ==
  IF args.dictionary_name \notin DOMAIN Dictionaries
    THEN Thrown("InvalidOperation:NoDictionary", reg)
  ELSE IF Len(Dictionaries[args.dictionary_name]) = 0
    THEN Thrown("InvalidOperation:EmptyDictionary", reg)
  ELSE LET dict == Dictionaries[args.dictionary_name]
           topic_size == Len(args.topic_name)
           new_ttm == [DensePhiMatrix(args.topic_name) EXCEPT
                         !.token = dict,
                         !.data = [i \in 1..Len(dict) |->
                                     GenerateRandomVector(topic_size, i, args.seed)]]
       IN Returned(SetPhiMatrix(reg, args.model_name,
                                [new_ttm EXCEPT !.data = FindPwtNoR(new_ttm)]))

\* lines 643-651; args is a TopicModel with a name
OverwriteTopicModel(args, reg) ==
  Returned(SetPhiMatrix(reg, args.name,
             ApplyTopicModelOperation(args, WeightDen, DensePhiMatrix(args.topic_name))))

(***************************************************************************)
(* API calls of the model lifecycle: SpecModel.                            *)
(***************************************************************************)
\* ExportModel called through the API.  The source fixes cells at
\* MaxChunkCells; the call is also run with fewer cells per chunk, so that a
\* matrix of three tokens is written in one, two and three chunks.
Api_ExportModel(args, cells) ==
  LET result == ExportModel(args, registry, file_system, cells)
  IN /\ StartCall("ExportModel", args, FALSE)
     /\ file_system' = result.file_system
     /\ last_error' = result.error
     /\ pc' = IF result.error = "" THEN "returned" ELSE "thrown"
     /\ UNCHANGED <<config, score_cache, score_tracker, local_score_manager, external,
                    bad_batches, registry, queue_vars, cache_manager, local_cache, pb, hist>>

\* a matrix of three tokens, one cell zero
BigNwt ==
  [topic_name |-> AllTopics, token |-> <<"w1", "w2", "w3">>,
   data |-> << <<4, 0>>, <<2, 3>>, <<7, 5>> >>, attached |-> FALSE]

ModelRegistry ==
  [n \in {"pwt", "nwt", "big", "empty"} |->
     CASE n = "pwt" -> InitialPhi [] n = "nwt" -> InitialNwt
       [] n = "big" -> BigNwt [] OTHER -> DensePhiMatrix(AllTopics)]

ChunkCells == {1, 2, 4, MaxChunkCells}

\* an exported file of two chunks
GoodStream == ExportStream(BigNwt, 4)

\* the file in.bin the instance finds on disk: an exported file; the file cut
\* after any number of its bytes; the file followed by, or starting with, a
\* chunk length that is not positive; the file with a byte of a chunk
\* zeroed; the file with another version
InputStreams ==
  {SubSeq(GoodStream, 1, k) : k \in 0..Len(GoodStream)}
  \cup {GoodStream \o <<DigitByte(0)>>, GoodStream \o <<MinusByte, DigitByte(1)>>}
  \cup {<<VersionByte(0), DigitByte(0)>> \o Tail(GoodStream),
        <<VersionByte(0), MinusByte>> \o Tail(GoodStream)}
  \cup {[GoodStream EXCEPT ![4] = ZeroByte],
        [GoodStream EXCEPT ![Len(GoodStream)] = ZeroByte]}
  \cup {[GoodStream EXCEPT ![1] = VersionByte(1)]}

InitModel ==
  /\ InitCommon
  /\ score_tracker = <<>>
  /\ config = MasterModelConfig(1, FALSE, <<>>)
  /\ registry = ModelRegistry
  /\ file_system = [n \in {"in.bin"} |-> GoodStream]

ApiExportModelArgs ==
  {ExportModelArgs(m, "out.bin") : m \in {"big", "pwt", "empty", "nomodel"}}
  \cup {ExportModelArgs("big", "in.bin"), ExportModelArgs("big", "nodir/out.bin")}

ApiImportModelArgs ==
  {ImportModelArgs(m, f) : m \in {"pwt", "imported"}, f \in {"in.bin", "out.bin"}}

AttachModelArgs(model_name) == [model_name |-> model_name]

ApiInitializeModelArgs ==
  {InitializeModelArgs("pwt", AllTopics, d, 0) : d \in {"dict", "empty_dict", "nodict"}}
  \cup {InitializeModelArgs("fresh", <<"t1">>, "dict", 1)}

\* the TopicModel OverwriteTopicModel is called with
ApiTopicModel(name) ==
  [name |-> name, topic_name |-> OtherNwt.topic_name, token |-> OtherNwt.token,
   token_weights |-> OtherNwt.data]

NextModel ==
  \/ \E args \in ApiExportModelArgs, cells \in ChunkCells : Api_ExportModel(args, cells)
  \/ \E args \in ApiImportModelArgs, uninit_version \in {0, 1} :
        ApiCall("ImportModel", args, ImportModel(args, registry, file_system, uninit_version))
  \/ \E n \in {"pwt", "big", "nomodel"} :
        ApiCall("AttachModel", AttachModelArgs(n), AttachModel(AttachModelArgs(n), registry))
  \/ \E args \in ApiInitializeModelArgs :
        ApiCall("InitializeModel", args, InitializeModel(args, registry))
  \/ \E n \in {"pwt", "big"} :
        ApiCall("OverwriteTopicModel", ApiTopicModel(n),
                OverwriteTopicModel(ApiTopicModel(n), registry))
  \/ \E n \in {"nwt", "big"} :
        ApiCall("NormalizeModel", NormalizeModelArgs(TRUE, "pwt", TRUE, n, FALSE, ""),
                NormalizeModel(NormalizeModelArgs(TRUE, "pwt", TRUE, n, FALSE, ""), registry))
  \/ \E t \in {"pwt", "big"} :
        ApiCall("MergeModel", MergeModelArgs(<<"nwt", "big">>, <<2, 1>>, t, <<>>),
                MergeModel(MergeModelArgs(<<"nwt", "big">>, <<2, 1>>, t, <<>>), registry))
  \/ \E n \in {"pwt", "big"} :
        ApiCall("DisposeModel", AttachModelArgs(n),
                Returned(DisposeModel(registry, n)))
  \/ Api_Return
  \/ Api_Thrown

SpecModel == InitModel /\ [][NextModel]_vars

\* ExportModel and ImportModel alone, on every file of InputStreams
InitStream ==
  /\ InitCommon
  /\ score_tracker = <<>>
  /\ config = MasterModelConfig(1, FALSE, <<>>)
  /\ registry = ModelRegistry
  /\ file_system \in {[n \in {"in.bin"} |-> s] : s \in InputStreams}

NextStream ==
  \/ \E args \in ApiExportModelArgs, cells \in ChunkCells : Api_ExportModel(args, cells)
  \/ \E args \in ApiImportModelArgs, uninit_version \in {0, 1} :
        ApiCall("ImportModel", args, ImportModel(args, registry, file_system, uninit_version))
  \/ Api_Return
  \/ Api_Thrown

SpecStream == InitStream /\ [][NextStream]_vars

(***************************************************************************)
(* Properties of ExportModel and ImportModel, checked under SpecStream.    *)
(***************************************************************************)
\* an ImportModel call has ended
ImportEnded == ex.op = "ImportModel" /\ pc \in {"returned", "thrown"}

\* the file the ImportModel call read
ImportedStream == file_system[ex.args.file_name]

\* equal topic names, equal tokens in the same order, equal values
SameMatrix(a, b) ==
  a.topic_name = b.topic_name /\ a.token = b.token /\ a.data = b.data

\* what is wrong with the chunks of a stream from position pos on, after
\* chunks well-formed chunks: "" when nothing is
RECURSIVE StreamDefect(_, _, _)
StreamDefect(stream, pos, chunks) ==
  IF pos > Len(stream) THEN (IF chunks = 0 THEN "NoChunk" ELSE "")
  ELSE LET r == ReadLength(stream, pos)
       IN IF r.length <= 0 THEN "NonPositiveLength"
          ELSE IF ParseFromArray(ReadBuffer(stream, r.pos, r.length)) = <<>>
            THEN "FailsToParse"
          ELSE StreamDefect(stream, r.pos + r.length, chunks + 1)

\* a stream of the supported version with a defect in its chunks
CorruptedStream(stream) ==
  /\ stream # <<>>
  /\ stream[1] = VersionByte(0)
  /\ StreamDefect(stream, 2, 0) # ""

\* C11: an ImportModel call on a corrupted stream (a chunk length that is
\* not positive, a chunk that does not parse, no chunk at all) ends with
\* CorruptedMessage and leaves every registry entry as the call found it.
C11_CorruptedImport ==
  (ImportEnded /\ ex.args.file_name \in DOMAIN file_system
     /\ CorruptedStream(ImportedStream)) =>
    /\ pc = "thrown"
    /\ last_error = "CorruptedMessage"
    /\ registry = ex.pre_registry

\* C17: when ImportModel reads the stream ExportModel writes for a
\* registered matrix M with at least one token, whatever the number of cells
\* per chunk, the call returns and the matrix it registers has the topic
\* names of M, the tokens of M in the same order and the values of M.
C17_RoundTrip ==
  ImportEnded =>
    \A n \in DOMAIN ex.pre_registry, cells \in ChunkCells :
      (/\ Len(ex.pre_registry[n].token) > 0
       /\ ex.args.file_name \in DOMAIN file_system
       /\ ImportedStream = ExportStream(ex.pre_registry[n], cells)) =>
        /\ pc = "returned"
        /\ SameMatrix(registry[ex.args.model_name], ex.pre_registry[n])

\* the three-token matrix, exported one token per chunk by an ExportModel
\* call, was imported over the entry pwt
C17_Witness ==
  /\ ImportEnded /\ pc = "returned"
  /\ ex.args.file_name = "out.bin"
  /\ ex.args.model_name = "pwt"
  /\ ImportedStream = ExportStream(ex.pre_registry["big"], 2)
  /\ ImportedStream # ExportStream(ex.pre_registry["big"], MaxChunkCells)
  /\ SameMatrix(registry["pwt"], BigNwt)
  /\ ex.pre_registry["pwt"] = InitialPhi

StepDisposes(n) ==
  pc = "idle" /\ ex'.op = "DisposeModel" /\ ex'.args.model_name = n

\* the name under which the call that starts in this step installs a matrix
\* when it returns
StepTarget ==
  CASE ex'.op = "NormalizeModel" -> ex'.args.pwt_target_name
    [] ex'.op = "MergeModel" -> ex'.args.nwt_target_name
    [] ex'.op = "OverwriteTopicModel" -> ex'.args.name
    [] ex'.op \in {"InitializeModel", "ImportModel"} -> ex'.args.model_name
    [] OTHER -> ""

\* the call that starts in this step returns and installs a matrix under n
StepInstalls(n) == pc = "idle" /\ pc' = "returned" /\ StepTarget = n

StepsFollow(order, names) ==
  \A i \in 1..Len(hist.steps) :
    LET body == ((i - 1) \div Len(order)) + 1
        at == ((i - 1) % Len(order)) + 1
    IN /\ hist.steps[i].call = order[at]
       /\ hist.steps[i].name = names[body][at]

\* the number of calls of one private method so far
StepCount(call) ==
  Cardinality({i \in 1..Len(hist.steps) : hist.steps[i].call = call})

OfflineOrder == <<"ProcessBatches", "Regularize", "Normalize", "StoreScores">>

\* C23: when FitOffline returns, with any number of passes and with or
\* without regularizers, no matrix rwt is registered; every pass calls
\* ProcessBatches, Regularize, Normalize and StoreScores in this order; the
\* nwt left holds the increments of the batches of the last pass only.
C23_OfflinePass ==
  ex.op = "FitOffline" =>
    /\ IF pc = "returned"
       THEN /\ ~HasModel(registry, "rwt")
            /\ Len(hist.steps) = 4 * ex.args.passes + 1
            /\ hist.steps[Len(hist.steps)] = [call |-> "Dispose", name |-> "rwt"]
            /\ SubSeq(hist.steps, 1, Len(hist.steps) - 1)
                 = [i \in 1..4 * ex.args.passes |->
                      [call |-> OfflineOrder[((i - 1) % 4) + 1],
                       name |-> <<config.nwt_name, "rwt", config.pwt_name, "">>
                                  [((i - 1) % 4) + 1]]]
            /\ ex.args.passes > 0 =>
                 registry[config.nwt_name]
                   = ExpectedN(hist.ops[Len(hist.ops)], config, bad_batches)
            /\ ex.args.passes = 0 =>
                 \A n \in (DOMAIN ex.pre_registry) \ {"rwt"} :
                   HasModel(registry, n) /\ registry[n] = ex.pre_registry[n]
       ELSE StepsFollow(OfflineOrder,
                        [k \in 1..MaxPasses + 1 |->
                           <<config.nwt_name, "rwt", config.pwt_name, "">>])
    /\ pc = "Offline_Regularize" =>
         registry[config.nwt_name] = ExpectedN(hist.ops[Len(hist.ops)], config, bad_batches)

\* two passes with a regularizer returned on a registry that held an rwt
\* and an nwt of an earlier fit
C23_Witness ==
  /\ ex.op = "FitOffline" /\ pc = "returned"
  /\ ex.args.passes = 2
  /\ config.regularizer_config # <<>>
  /\ HasModel(ex.pre_registry, "rwt")
  /\ bad_batches = {}
  /\ registry[config.nwt_name] # ex.pre_registry[config.nwt_name]
  /\ hist.ops[1].phi # hist.ops[2].phi

OnlineOrder ==
  <<"ProcessBatches", "Merge", "Dispose", "Regularize", "Normalize", "StoreScores">>

\* the names the calls of step i of the synchronous online fit work on
OnlineNames(i) ==
  <<StringIndex("nwt_hat", i), StringIndex("nwt_hat", i), StringIndex("nwt_hat", i),
    "rwt", config.pwt_name, "">>

\* the names nwt_hat<i> and pwt<i> of a fit
IndexedNames(prefix) == {StringIndex(prefix, i) : i \in 0..MaxGroups + 1}

\* C24: the synchronous FitOnline takes one step per update group, in the
\* order of the groups; step i processes the batches of group i from pwt
\* into nwt_hat<i>, merges nwt and nwt_hat<i> into nwt with decay_weight[i]
\* and apply_weight[i], disposes nwt_hat<i>, and calls Regularize, Normalize
\* and StoreScores, in this order; when it returns no nwt_hat<i> is
\* registered.
C24_OnlineSteps ==
  InSyncFit =>
    /\ StepsFollow(OnlineOrder, [k \in 1..MaxGroups + 1 |-> OnlineNames(k - 1)])
    /\ \A k \in 1..Len(hist.ops) :
         /\ hist.ops[k].group = k - 1
         /\ hist.ops[k].source = config.pwt_name
         /\ hist.ops[k].target = StringIndex("nwt_hat", k - 1)
         /\ hist.ops[k].batch_filename = GroupBatches(ex.args, k - 1)
         /\ hist.ops[k].batch_weight = GroupWeights(ex.args, k - 1)
    /\ \A k \in 1..Len(hist.merges) :
         /\ hist.merges[k].op = k - 1
         /\ hist.merges[k].nwt_hat_name = StringIndex("nwt_hat", k - 1)
         /\ hist.merges[k].decay = ex.args.decay_weight[k]
         /\ hist.merges[k].apply = ex.args.apply_weight[k]
    /\ pc = "returned" =>
         /\ Len(hist.ops) = Len(ex.args.update_after)
         /\ Len(hist.steps) = 6 * Len(ex.args.update_after)
         /\ (DOMAIN registry) \cap IndexedNames("nwt_hat") = {}

\* a synchronous fit over two groups with different decay weights returned
C24_Witness ==
  /\ InSyncFit /\ pc = "returned"
  /\ Len(ex.args.update_after) = 2
  /\ ex.args.decay_weight[1] # ex.args.decay_weight[2]
  /\ Len(hist.merges) = 2
  /\ hist.merges[1].nwt_hat # Null

\* the positions of the calls of one method on one name
StepsAt(call, name) ==
  {i \in 1..Len(hist.steps) : hist.steps[i] = [call |-> call, name |-> name]}

\* the pwt<i> that a Normalize of the run wrote
CreatedPwt ==
  {n \in IndexedNames("pwt") : StepsAt("Normalize", n) # {}}

\* C26: when the asynchronous FitOnline over one or more update groups
\* returns, the configured pwt holds the Phi of the last Normalize, which
\* wrote to that name, and no pwt<i> or nwt_hat<i> is registered; every
\* pwt<i> a Normalize wrote is disposed once, after every operation that
\* reads it was awaited.
C26_AsyncCleanup ==
  InAsyncFit =>
    /\ \A n \in CreatedPwt :
         /\ Cardinality(StepsAt("Dispose", n)) <= 1
         /\ \A j \in StepsAt("Dispose", n) :
              /\ \A i \in StepsAt("Normalize", n) : i < j
              /\ \A k \in 1..Len(hist.ops) :
                   hist.ops[k].source = n =>
                     \E a \in StepsAt("Await", hist.ops[k].target) : a < j
         /\ StepsAt("Dispose", n) = {} => HasModel(registry, n)
    /\ pc = "returned" =>
         /\ \A n \in CreatedPwt : Cardinality(StepsAt("Dispose", n)) = 1
         /\ (DOMAIN registry) \cap (IndexedNames("pwt") \cup IndexedNames("nwt_hat")) = {}
         /\ Len(hist.trajectory) = Len(ex.args.update_after)
         /\ HasModel(registry, config.pwt_name)
         /\ registry[config.pwt_name] = hist.trajectory[Len(hist.trajectory)].pwt
         /\ \E i \in StepsAt("Normalize", config.pwt_name) :
              \A j \in 1..Len(hist.steps) : hist.steps[j].call = "Normalize" => j <= i

\* an asynchronous fit over three groups returned: pwt2 and pwt3 were
\* written and disposed
C26_Witness ==
  /\ InAsyncFit /\ pc = "returned"
  /\ Len(ex.args.update_after) = 3
  /\ CreatedPwt = {"pwt2", "pwt3"}
  /\ registry[config.pwt_name] # ex.pre_registry[config.pwt_name]

\* the entries one pass over the batches of the fit adds to the tracker
PassEntries(cfg, args, bad) ==
  [i \in 1..Len(cfg.score_config) |->
     RequestScore(Range(args.batch_filename) \ bad, cfg.score_config[i])]

RECURSIVE Repeated(_, _)
Repeated(seq, n) == IF n = 0 THEN <<>> ELSE seq \o Repeated(seq, n - 1)

\* C29: FitOffline with P passes and S configured scores adds P * S entries
\* to the score tracker after those it found, the S entries of a pass
\* together and in the order of the passes, each added right after the
\* Normalize of its pass from the score manager made for that pass, which
\* holds the scores of the batches of that pass only.
C29_ScoreHistory ==
  ex.op = "FitOffline" =>
    /\ score_tracker = ex.pre_score_tracker
                         \o Repeated(PassEntries(config, ex.args, bad_batches),
                                     StepCount("StoreScores"))
    /\ Len(score_tracker) = Len(ex.pre_score_tracker)
                              + StepCount("StoreScores") * Len(config.score_config)
    /\ \A i \in 1..Len(hist.steps) :
         hist.steps[i].call = "StoreScores" =>
           i > 1 /\ hist.steps[i - 1].call = "Normalize"
    /\ StepCount("StoreScores") = ex.pass
    /\ pc = "Offline_StoreScores" =>
         local_score_manager = Range(ex.args.batch_filename) \ bad_batches
    /\ pc = "returned" => StepCount("StoreScores") = ex.args.passes

\* two passes with two scores added four entries after the entry of an
\* earlier fit
C29_Witness ==
  /\ ex.op = "FitOffline" /\ pc = "returned"
  /\ ex.args.passes = 2
  /\ Len(config.score_config) = 2
  /\ ex.pre_score_tracker = PriorScoreTracker
  /\ Len(score_tracker) = 5
  /\ score_tracker[2].batches = {"b1", "b2"}

UpdateAfters(n) ==
  {ua \in UNION {[1..k -> 0..n] : k \in 0..MaxGroups} :
     /\ \A i \in 1..Len(ua) - 1 : ua[i] <= ua[i + 1]
     /\ IF Len(ua) = 0 THEN n = 0 ELSE ua[Len(ua)] = n}

\* the iterators constructed; the weight of the i-th batch is i
IteratorInputs ==
  UNION {{BatchesIterator(SubSeq(BatchList, 1, n), [i \in 1..n |-> i], ua,
                          [i \in 1..Len(ua) |-> 1], [i \in 1..Len(ua) |-> 1]) :
            ua \in UpdateAfters(n)} : n \in 0..Len(BatchList)}

InitIter ==
  /\ InitCommon
  /\ score_tracker = <<>>
  /\ file_system = <<>>
  /\ config = MasterModelConfig(1, FALSE, <<>>)
  /\ registry = <<>>

\* lines 744-755: the constructor
Iter_New(iter) ==
  /\ pc = "idle"
  /\ calls = 0
  /\ pc' = "iterator"
  /\ calls' = 1
  /\ ex' = [NoEx EXCEPT !.op = "OnlineBatchesIterator", !.iter = iter]
  /\ UNCHANGED <<config, score_cache, score_tracker, local_score_manager, file_system, external, bad_batches, registry, queue_vars,
                 cache_manager, local_cache, pb, last_error, hist>>

\* lines 760-775: move(args) on the ProcessBatchesArgs of the caller
Iter_Move ==
  /\ pc = "iterator"
  /\ LET moved == OnlineBatchesIterator_move(ex.iter)
     IN /\ pb' = [pb EXCEPT !.args.batch_filename = moved.batch_filename,
                            !.args.batch_weight = moved.batch_weight]
        /\ ex' = [ex EXCEPT !.iter = moved.iter]
  /\ UNCHANGED <<config, score_cache, score_tracker, local_score_manager, file_system, external, bad_batches, registry, queue_vars,
                 cache_manager, local_cache, pc, last_error, calls, hist>>

\* line 785: reset()
Iter_Reset ==
  /\ pc = "iterator"
  /\ ex' = [ex EXCEPT !.iter = reset(@)]
  /\ UNCHANGED <<config, score_cache, score_tracker, local_score_manager, file_system, external, bad_batches, registry, queue_vars,
                 cache_manager, local_cache, pb, pc, last_error, calls, hist>>

NextIter ==
  \/ \E iter \in IteratorInputs : Iter_New(iter)
  \/ Iter_Move
  \/ Iter_Reset

SpecIter == InitIter /\ [][NextIter]_vars

\* the groups successive moves emit from an iterator until more() is false
RECURSIVE MoveAll(_)
MoveAll(iter) ==
  IF ~more(iter) THEN <<>>
  ELSE LET moved == OnlineBatchesIterator_move(iter)
       IN <<[batch_filename |-> moved.batch_filename,
             batch_weight |-> moved.batch_weight]>> \o MoveAll(moved.iter)

\* the batches, or the weights, of some groups one after the other
RECURSIVE ConcatGroups(_, _)
ConcatGroups(groups, field) ==
  IF groups = <<>> THEN <<>>
  ELSE groups[1][field] \o ConcatGroups(Tail(groups), field)

\* the batch indices [update_after[c-1], update_after[c]) of group c
GroupIndices(iter, c) ==
  {i \in 0..Len(iter.batch_filename) - 1 :
     /\ (IF c = 0 THEN 0 ELSE iter.update_after[c]) <= i
     /\ i < iter.update_after[c + 1]}

\* update_after is nondecreasing and its last entry is the number of batches
IteratorValid(iter) ==
  /\ \A i \in 1..Len(iter.update_after) - 1 :
       iter.update_after[i] <= iter.update_after[i + 1]
  /\ Len(iter.update_after) > 0 =>
       iter.update_after[Len(iter.update_after)] = Len(iter.batch_filename)
  /\ Len(iter.update_after) = 0 => Len(iter.batch_filename) = 0

\* the moves from cursor 0 emit one group per entry of update_after, group c
\* being the batches of GroupIndices in input order with their weights; the
\* index sets are disjoint and cover every batch
IteratorPartition(iter) ==
  LET groups == MoveAll(reset(iter))
      G == Len(iter.update_after)
  IN /\ Len(groups) = G
     /\ \A c \in 0..G - 1 :
          LET lo == IF c = 0 THEN 0 ELSE iter.update_after[c]
              hi == iter.update_after[c + 1]
          IN /\ Len(groups[c + 1].batch_filename) = Cardinality(GroupIndices(iter, c))
             /\ Len(groups[c + 1].batch_weight) = Cardinality(GroupIndices(iter, c))
             /\ \A k \in 1..(hi - lo) :
                  /\ groups[c + 1].batch_filename[k] = iter.batch_filename[lo + k]
                  /\ groups[c + 1].batch_weight[k] = iter.batch_weight[lo + k]
     /\ \A c, d \in 0..G - 1 :
          c # d => GroupIndices(iter, c) \cap GroupIndices(iter, d) = {}
     /\ UNION {GroupIndices(iter, c) : c \in 0..G - 1}
          = 0..Len(iter.batch_filename) - 1
     /\ ConcatGroups(groups, "batch_filename") = iter.batch_filename
     /\ ConcatGroups(groups, "batch_weight") = iter.batch_weight

\* the step is a move of the iterator (a reset takes the cursor back to 0)
StepIsMove ==
  /\ ex.op = "OnlineBatchesIterator" /\ ex'.op = "OnlineBatchesIterator"
  /\ ~(ex.iter.current_ > 0 /\ ex'.iter.current_ = 0)

\* C27: over an update_after that is nondecreasing and ends in the number
\* of batches, the moves from cursor 0 until more() is false emit the
\* consecutive disjoint groups [update_after[c-1], update_after[c]), which
\* hold every batch once, in input order, with its weight; more() holds
\* exactly when the cursor is below the number of groups; a move when more()
\* is false emits no batch and leaves the cursor where it is.
C27_IteratorPartition ==
  [][/\ (ex.op = "OnlineBatchesIterator" /\ IteratorValid(ex.iter)) =>
          IteratorPartition(ex.iter)
     /\ ex.op = "OnlineBatchesIterator" =>
          (more(ex.iter) <=> ex.iter.current_ < Len(ex.iter.update_after))
     /\ StepIsMove =>
          IF ex.iter.current_ < Len(ex.iter.update_after)
          THEN /\ ex'.iter.current_ = ex.iter.current_ + 1
               /\ pb'.args.batch_filename
                    = MoveAll(reset(ex.iter))[ex.iter.current_ + 1].batch_filename
               /\ pb'.args.batch_weight
                    = MoveAll(reset(ex.iter))[ex.iter.current_ + 1].batch_weight
          ELSE /\ pb'.args.batch_filename = <<>>
               /\ pb'.args.batch_weight = <<>>
               /\ ex'.iter = ex.iter]_vars

\* after the three groups of update_after = [1, 1, 3], the second of them
\* empty, one more move emptied the arguments and left the cursor at 3
C27_Witness ==
  /\ ex.op = "OnlineBatchesIterator"
  /\ ex.iter.update_after = <<1, 1, 3>>
  /\ ex.iter.current_ = 3
  /\ ~more(ex.iter)
  /\ pb.args.batch_filename = <<>>

(***************************************************************************)
(* MergeModel: errors and missing sources, checked under SpecMerge.        *)
(***************************************************************************)
\* the positions of the sources of a MergeModel call that exist
ExistingSources(args, reg) ==
  {i \in 1..Len(args.nwt_source_name) : HasModel(reg, args.nwt_source_name[i])}

\* the call has no source, as many weights as sources it has not, or none
\* of its sources exists
MergeMustFail(args, reg) ==
  \/ Len(args.nwt_source_name) = 0
  \/ Len(args.nwt_source_name) # Len(args.source_weight)
  \/ ExistingSources(args, reg) = {}

\* the weighted sum of a cell over the sources that exist
MergedCell(args, reg, tok, topic) ==
  SumSeq([i \in 1..Len(args.nwt_source_name) |->
            IF i \in ExistingSources(args, reg)
            THEN Mul(args.source_weight[i],
                     Cell(reg[args.nwt_source_name[i]], tok, topic))
            ELSE 0])

\* C28: MergeModel ends with InvalidOperation and an unchanged registry when
\* the source list is empty, when sources and weights differ in number, or
\* when no named source exists; otherwise it returns, the missing sources
\* add nothing to the target, and the topics of the target are the
\* topic_name of the arguments if given, else those of the first source
\* that exists.
C28_MergeErrors ==
  (ex.op = "MergeModel" /\ pc # "idle") =>
    LET args == ex.args
        pre == ex.pre_registry
    IN IF MergeMustFail(args, pre)
       THEN /\ pc = "thrown"
            /\ last_error \in {"InvalidOperation:NoSourceName",
                               "InvalidOperation:SourceWeightSize",
                               "InvalidOperation:NoModelsToMerge"}
            /\ registry = pre
       ELSE LET T == registry[args.nwt_target_name]
                first == CHOOSE i \in ExistingSources(args, pre) :
                           \A j \in ExistingSources(args, pre) : i <= j
            IN /\ pc = "returned"
               /\ T.topic_name = IF args.topic_name # <<>> THEN args.topic_name
                                 ELSE pre[args.nwt_source_name[first]].topic_name
               /\ Range(T.token) =
                    UNION {Range(pre[args.nwt_source_name[i]].token) :
                             i \in ExistingSources(args, pre)}
               /\ \A tok \in AnyTokens : \A topic \in Range(T.topic_name) :
                    Cell(T, tok, topic) = MergedCell(args, pre, tok, topic)
               /\ \A n \in DOMAIN pre :
                    n # args.nwt_target_name =>
                      (HasModel(registry, n) /\ registry[n] = pre[n])

\* a merge whose first source is missing returned with the topics the caller
\* named
C28_Witness ==
  /\ ex.op = "MergeModel" /\ pc = "returned"
  /\ ex.args.nwt_source_name = <<"nomodel", "other">>
  /\ ex.args.topic_name = <<"t3", "t1">>
  /\ registry["merged"].topic_name = <<"t3", "t1">>
  /\ registry["merged"].data # ex.pre_registry["other"].data

FreshTarget(args, reg) ==
  [topic_name |-> reg[args.pwt_source_name].topic_name,
   token |-> reg[args.pwt_source_name].token,
   data |-> [i \in 1..Len(reg[args.pwt_source_name].token) |->
               ZeroRow(Len(reg[args.pwt_source_name].topic_name))],
   attached |-> FALSE]

\* a ProcessBatches call with a target is past its validation
TargetCallRunning ==
  /\ ex.op \in {"Request_ProcessBatches", "AsyncRequestProcessBatches"}
  /\ pb.pc \in {"enqueue", "push", "wait", "returned"}
  /\ pb.args.has_nwt_target_name

\* a processor thread has processed a task of the running call
OwnTaskProcessed ==
  \/ removed[pb.batch_manager] # {}
  \/ \E w \in 1..MaxThreads :
       worker[w].st = "processed" /\ worker[w].pi.batch_manager = pb.batch_manager

\* a synchronous call with a target returned
SyncTargetReturned ==
  /\ TargetCallRunning
  /\ pb.pc = "returned" /\ ~pb.async

\* the target holds what the tasks of the call deposit into a fresh target
HoldsOwnContributions ==
  registry[pb.args.nwt_target_name]
    = ProcessBatchesResult(pb.args, ex.pre_registry, config, bad_batches)
        [pb.args.nwt_target_name]

\* the call found a pending input of another operation with the same target
ForeignPending == pb.args.nwt_target_name \in ex.pre_targets

C30_NoDanglingHandle ==
  pb.pc = "returned" =>
    \A pi \in VisibleInputs :
      /\ "local" \notin {pi.cache_manager, pi.ptdw_cache_manager}
      /\ pi.batch_manager = pb.batch_manager =>
           /\ pb.async
           /\ pi.cache_manager = "null"
           /\ pi.ptdw_cache_manager = "null"
           /\ pi.score_manager = "null"
      /\ pi.score_manager = "local" => pi.batch_manager # pb.batch_manager

\* a Dense call returned with its local cache filled while an input of an
\* earlier asynchronous call is still in progress
C30_Witness ==
  /\ pb.pc = "returned" /\ ~pb.async
  /\ pb.args.theta_matrix_type = "Dense"
  /\ local_cache # <<>>
  /\ \E pi \in VisibleInputs : pi.batch_manager # pb.batch_manager

(***************************************************************************)
(* A ProcessBatches call that fails, checked under Spec.                   *)
(***************************************************************************)
\* the step in which a ProcessBatches call is made and ends with an exception
FailedProcessBatches ==
  /\ pc = "idle" /\ pc' = "thrown"
  /\ ex'.op \in {"Request_ProcessBatches", "AsyncRequestProcessBatches"}

\* C31: a ProcessBatches call that fails (no processors, unknown source
\* model, source equal to target, asynchronous with a theta_matrix_type other
\* than None) leaves the matrix registry, its batch manager and the processor
\* queue as they were before the call; no N target is installed or zeroed.
C31_FailedCallNoEffect ==
  [][FailedProcessBatches =>
       /\ last_error' \in InvalidOperations
       /\ registry' = registry
       /\ processor_queue' = processor_queue
       /\ worker' = worker
       /\ batch_managers' = Append(batch_managers, {})
       /\ added' = Append(added, {})]_vars

(***************************************************************************)
(* The pipeline of ExecuteAsyncOnlineAlgorithm, checked under SpecFit.     *)
(***************************************************************************)
\* the operations launched so far that have tasks not removed yet, by
\* operation id
OutstandingOps == {k \in 0..(Len(hist.ops) - 1) : Outstanding(hist.ops[k + 1])}

\* the steps of one turn of the loop after its head
AsyncBodyPcs == {"Async_Await"} \cup AsyncConsumingPcs

\* C32: in FitOnlineAsync with G >= 1 update groups the operations are
\* launched one per group in group order and merged one per operation in
\* operation order, never more than G of them; the turn of the loop that
\* merges operation G-1, and no other, is the last one, so that G operations
\* were launched and G merges made when the fit returns; and at every moment
\* the operations with outstanding tasks are among operation K, the next to
\* be merged, and operation K+1.
C32_AsyncPipeline ==
  (InAsyncFit /\ Len(ex.args.update_after) >= 1) =>
    LET G == Len(ex.args.update_after)
        K == Len(hist.merges)
    IN /\ Len(hist.ops) <= G
       /\ \A k \in 1..Len(hist.ops) : hist.ops[k].group = k - 1
       /\ K <= Len(hist.ops)
       /\ StepCount("Merge") = K
       /\ \A k \in 1..K : hist.merges[k].op = k - 1
       /\ OutstandingOps \subseteq {K, K + 1}
       /\ Cardinality(OutstandingOps) <= 2
       /\ pc \in AsyncBodyPcs =>
            /\ ex.is_last <=> (ex.temp_op_id = G - 1)
            /\ Len(hist.ops) = (IF ex.is_last THEN G ELSE ex.temp_op_id + 2)
            /\ K \in {ex.temp_op_id, ex.temp_op_id + 1}
       /\ pc = "returned" =>
            /\ Len(hist.ops) = G
            /\ K = G
            /\ hist.merges[G].op = G - 1
            /\ ex.is_last /\ ex.temp_op_id = G - 1
            /\ StepCount("Await") = G
            /\ OutstandingOps = {}

\* a fit over three groups is awaiting operation 1, whose task is still
\* outstanding, while operation 2 was launched and has its task outstanding
C32_Witness ==
  /\ InAsyncFit
  /\ Len(ex.args.update_after) = 3
  /\ pc = "Async_Await"
  /\ ex.temp_op_id = 1
  /\ Len(hist.merges) = 1
  /\ OutstandingOps = {1, 2}

(***************************************************************************)
(* The online fits over any number of update groups, none included:        *)
(* SpecOnline.                                                             *)
(***************************************************************************)
\* online iterators with no update group and with 1 to MaxGroups groups
FitOnlineAnyArgs == {OnlineIterator(g, async) : g \in 0..MaxGroups, async \in BOOLEAN}

NextOnline ==
  \/ \E args \in FitOnlineAnyArgs : FitOnline(args)
  \/ Online_Loop
  \/ Online_ProcessBatches
  \/ Online_Merge
  \/ Online_Dispose
  \/ Online_Regularize
  \/ Online_Normalize
  \/ Online_StoreScores
  \/ Async_Loop
  \/ Async_Await
  \/ Async_Merge
  \/ Async_Dispose
  \/ Async_Regularize
  \/ Async_Normalize
  \/ Async_DisposePwt
  \/ PB_Enqueue
  \/ PB_Push
  \/ PB_Drained
  \/ WorkerStep
  \/ Api_Return
  \/ Api_Thrown

SpecOnline == InitFit /\ [][NextOnline]_vars

\* the iterator of the fit has no update group
NoUpdateGroup == ex.op = "FitOnline" /\ Len(ex.args.update_after) = 0

\* C33: for every online iterator whose apply_weight, decay_weight and
\* update_after have the same length, an empty update_after included,
\* FitOnlineSync and FitOnlineAsync read apply_weight and decay_weight only
\* at indices from 0 to len(update_after) - 1; with zero update groups both
\* schedules make no Merge and leave the registry as it was.
C33_WeightReads ==
  ex.op = "FitOnline" =>
    /\ ex.weight_reads \subseteq 0..(Len(ex.args.update_after) - 1)
    /\ NoUpdateGroup =>
         /\ StepCount("Merge") = 0
         /\ pc = "returned" => registry = ex.pre_registry

(***************************************************************************)
(* An ExportModel call that fails, checked under SpecModel.                *)
(***************************************************************************)
\* the step in which an ExportModel call is made and ends with an exception
FailedExport == pc = "idle" /\ pc' = "thrown" /\ ex'.op = "ExportModel"

\* the models of a registry that have a token
NonEmptyModels(reg) == {n \in DOMAIN reg : Len(reg[n].token) > 0}

\* C34: an ExportModel call that fails (the file exists, the file cannot be
\* created, the model name is unknown, the model has no tokens) leaves the
\* file system as it was and creates no file at the target path: when the
\* path did not exist before the failed call, an export of an existing model
\* with tokens to the same path succeeds after it.
C34_FailedExportNoFile ==
  [][FailedExport =>
       /\ last_error' \in {"DiskWrite:FileExists", "DiskWrite:UnableToCreate",
                           "InvalidOperation:MissingModel", "InvalidOperation:NoTokens"}
       /\ file_system' = file_system
       /\ (ex'.args.file_name \notin DOMAIN file_system
             /\ ex'.args.file_name \notin NoSuchDirectory) =>
            \A n \in NonEmptyModels(registry'), cells \in ChunkCells :
              ExportModel(ExportModelArgs(n, ex'.args.file_name),
                          registry', file_system', cells).error = ""]_vars

====
